---- MODULE Spec2Model ----
(***************************************************************************)
(* Model of the LecteurAide ingestion engine                               *)
(* (src/backend/app/services/pipeline.py, src/backend/app/utils/*.py).     *)
(*                                                                         *)
(* Strings are sequences of one-character strings, so that lengths,        *)
(* substrings, searches, trimming and whitespace normalisation are         *)
(* computed as Python computes them.  Python offsets are 0-based; the      *)
(* operators below keep the 0-based offsets of the code and translate to   *)
(* the 1-based TLA+ sequences inside.                                      *)
(***************************************************************************)
EXTENDS Integers, Sequences, FiniteSets, TLC

\* ------------------------------------------------------------------------
\* Python builtins used by the code
\* ------------------------------------------------------------------------

SetMin(S) == CHOOSE x \in S : \A y \in S : x <= y

SetMax(S) == CHOOSE x \in S : \A y \in S : y <= x

PyMin(a, b) == IF a <= b THEN a ELSE b

PyMax(a, b) == IF a >= b THEN a ELSE b

\* str.isspace() of one character, over the alphabet of the model
IsSpace(c) == c \in {" ", "\n"}

\* "c" * n
Rep(c, n) == [i \in 1..n |-> c]

\* A slice bound as Python reads it: a negative bound counts from the end,
\* and every bound is clamped to 0..n
PyIndex(i, n) == IF i < 0 THEN PyMax(i + n, 0) ELSE PyMin(i, n)

\* s[a:b]
PySlice(s, a, b) == SubSeq(s, PyIndex(a, Len(s)) + 1, PyIndex(b, Len(s)))

\* s.strip()
Strip(s) ==
    LET keep == {i \in 1..Len(s) : ~IsSpace(s[i])}
    IN  IF keep = {} THEN <<>> ELSE SubSeq(s, SetMin(keep), SetMax(keep))

\* s.find(sub): a search that ignores where the previous sentence ended
FindAnywhere(s, sub, start) ==
    LET hits == {i \in 0..(Len(s) - Len(sub)) :
                    SubSeq(s, i + 1, i + Len(sub)) = sub}
    IN  IF hits = {} THEN -1 ELSE SetMin(hits)

\* s.find(sub, start) for a non-empty sub and start >= 0
Find(s, sub, start) ==
    LET hits == {i \in start..(Len(s) - Len(sub)) :
                    SubSeq(s, i + 1, i + Len(sub)) = sub}
    IN  IF hits = {} THEN -1 ELSE SetMin(hits)

\* s.rfind(ch, lo, hi) for one character ch
RFind(s, ch, lo, hi) ==
    LET hits == {i \in PyIndex(lo, Len(s))..(PyIndex(hi, Len(s)) - 1) : s[i + 1] = ch}
    IN  IF hits = {} THEN -1 ELSE SetMax(hits)

\* s.split(): the maximal runs of non-whitespace characters, in order
RECURSIVE SplitWords(_)
SplitWords(s) ==
    LET t == Strip(s)
    IN  IF t = <<>> THEN <<>>
        ELSE LET sp == {i \in 1..Len(t) : IsSpace(t[i])}
             IN  IF sp = {} THEN <<t>>
                 ELSE <<SubSeq(t, 1, SetMin(sp) - 1)>>
                        \o SplitWords(SubSeq(t, SetMin(sp), Len(t)))

\* sep.join(parts) for a one-character sep
RECURSIVE Join(_, _)
Join(sep, parts) ==
    IF parts = <<>> THEN <<>>
    ELSE IF Len(parts) = 1 THEN parts[1]
    ELSE parts[1] \o <<sep>> \o Join(sep, Tail(parts))

\* "".join(parts)
RECURSIVE Concat(_)
Concat(parts) ==
    IF parts = <<>> THEN <<>> ELSE parts[1] \o Concat(Tail(parts))

\* sum(len(x) for x in parts)
RECURSIVE SumLen(_)
SumLen(parts) ==
    IF parts = <<>> THEN 0 ELSE Len(parts[1]) + SumLen(Tail(parts))

\* filter(None, parts): the non-empty strings of parts, in order
RECURSIVE FilterNonEmpty(_)
FilterNonEmpty(parts) ==
    IF parts = <<>> THEN <<>>
    ELSE (IF parts[1] = <<>> THEN <<>> ELSE <<parts[1]>>)
            \o FilterNonEmpty(Tail(parts))

\* normalize(value) == " ".join(value.split())
normalize(value) == Join(" ", SplitWords(value))

\* ------------------------------------------------------------------------
\* Characters: the ASCII letters and digits, as str.upper, str.lower,
\* str.isalpha and the regular expression classes \d and \w treat them
\* ------------------------------------------------------------------------

LowerLetters ==
    <<"a", "b", "c", "d", "e", "f", "g", "h", "i", "j", "k", "l", "m",
      "n", "o", "p", "q", "r", "s", "t", "u", "v", "w", "x", "y", "z">>

UpperLetters ==
    <<"A", "B", "C", "D", "E", "F", "G", "H", "I", "J", "K", "L", "M",
      "N", "O", "P", "Q", "R", "S", "T", "U", "V", "W", "X", "Y", "Z">>

Digits == {"0", "1", "2", "3", "4", "5", "6", "7", "8", "9"}

IsLower(c) == \E k \in 1..Len(LowerLetters) : LowerLetters[k] = c

IsUpper(c) == \E k \in 1..Len(UpperLetters) : UpperLetters[k] = c

IsAlpha(c) == IsLower(c) \/ IsUpper(c)

IsDigit(c) == c \in Digits

\* \w
IsWordChar(c) == IsAlpha(c) \/ IsDigit(c) \/ c = "_"

ToUpper(c) ==
    IF IsLower(c) THEN UpperLetters[CHOOSE k \in 1..Len(LowerLetters) : LowerLetters[k] = c]
    ELSE c

ToLower(c) ==
    IF IsUpper(c) THEN LowerLetters[CHOOSE k \in 1..Len(UpperLetters) : UpperLetters[k] = c]
    ELSE c

\* str.upper and str.lower
Upper(s) == [k \in 1..Len(s) |-> ToUpper(s[k])]

Lower(s) == [k \in 1..Len(s) |-> ToLower(s[k])]

\* str.startswith
StartsWith(s, prefix) == Len(s) >= Len(prefix) /\ SubSeq(s, 1, Len(prefix)) = prefix

\* "sub in s"
Contains(s, sub) == \E i \in 0..(Len(s) - Len(sub)) : SubSeq(s, i + 1, i + Len(sub)) = sub

\* ------------------------------------------------------------------------
\* Sentence slicer
\* ------------------------------------------------------------------------

\* source_text.splitlines(True): lines with their "\n" kept
RECURSIVE SplitLinesKeep(_)
SplitLinesKeep(s) ==
    IF s = <<>> THEN <<>>
    ELSE LET nl == {i \in 1..Len(s) : s[i] = "\n"}
         IN  IF nl = {} THEN <<s>>
             ELSE <<SubSeq(s, 1, SetMin(nl))>>
                    \o SplitLinesKeep(SubSeq(s, SetMin(nl) + 1, Len(s)))

\* The paragraph loop of build_sentence_slices: blank-line delimited groups
\* of lines, each with the offset of its first line.  paragraph_start = -1
\* stands for None.
RECURSIVE ParagraphLoop(_, _, _, _, _, _)
ParagraphLoop(lines, i, paragraphs, current_lines, paragraph_start, position) ==
    IF i > Len(lines)
    THEN IF current_lines # <<>> /\ paragraph_start # -1
         THEN Append(paragraphs, [text |-> Concat(current_lines), start |-> paragraph_start])
         ELSE paragraphs
    ELSE LET line == lines[i]
         IN  IF Strip(line) # <<>>
             THEN ParagraphLoop(lines, i + 1, paragraphs,
                                Append(current_lines, line),
                                IF paragraph_start = -1 THEN position ELSE paragraph_start,
                                position + Len(line))
             ELSE IF current_lines # <<>> /\ paragraph_start # -1
                  THEN ParagraphLoop(lines, i + 1,
                                     Append(paragraphs, [text |-> Concat(current_lines),
                                                         start |-> paragraph_start]),
                                     <<>>, -1, position + Len(line))
                  ELSE ParagraphLoop(lines, i + 1, paragraphs, current_lines,
                                     paragraph_start, position + Len(line))

Paragraphs(source_text) ==
    LET found == ParagraphLoop(SplitLinesKeep(source_text), 1, <<>>, <<>>, -1, 0)
    IN  IF found = <<>> THEN <<[text |-> source_text, start |-> 0]>> ELSE found

\* split_sentences: cut the trimmed text at every whitespace run that
\* follows one of . ? ! and drop the run; keep the non-blank parts, trimmed.
IsTerminal(c) == c \in {".", "?", "!"}

RECURSIVE SplitAfterTerminal(_)
SplitAfterTerminal(t) ==
    LET cuts == {i \in 2..Len(t) : IsSpace(t[i]) /\ IsTerminal(t[i - 1])}
    IN  IF cuts = {} THEN <<t>>
        ELSE LET c == SetMin(cuts)
                 rest == {j \in c..Len(t) : ~IsSpace(t[j])}
             IN  <<SubSeq(t, 1, c - 1)>>
                   \o (IF rest = {} THEN <<<<>>>>
                       ELSE SplitAfterTerminal(SubSeq(t, SetMin(rest), Len(t))))

split_sentences(text) ==
    LET stripped == Strip(text)
        parts == IF stripped = <<>> THEN <<>> ELSE SplitAfterTerminal(stripped)
    IN  FilterNonEmpty([k \in 1..Len(parts) |-> Strip(parts[k])])

\* The mutation of SentenceSlice that puts every slice in the first paragraph
SentenceSliceOfFirstParagraph(text, start, end, paragraph_index) ==
    [text |-> text, start |-> start, end |-> end, paragraph_index |-> 0]

\* A SentenceSlice
SentenceSlice(text, start, end, paragraph_index) ==
    [text |-> text, start |-> start, end |-> end, paragraph_index |-> paragraph_index]

\* backtrack <= segment_start + max_chars * 0.3, in integers
NotPastThreshold(backtrack, segment_start, max_chars) ==
    10 * (backtrack - segment_start) <= 3 * max_chars

\* The while loop that cuts a sentence longer than max_chars into sub-segments
RECURSIVE CutLoop(_, _, _, _, _, _)
CutLoop(source_text, segment_start, end_idx, max_chars, paragraph_index, slices) ==
    IF ~(segment_start < end_idx) THEN slices
    ELSE
      LET window_end == PyMin(segment_start + max_chars, end_idx)
          space == RFind(source_text, " ", segment_start, window_end)
          backtrack ==
              IF space = -1 \/ NotPastThreshold(space, segment_start, max_chars)
              THEN RFind(source_text, "\n", segment_start, window_end)
              ELSE space
          segment_end ==
              IF window_end < end_idx /\ backtrack # -1 /\ backtrack > segment_start
              THEN backtrack ELSE window_end
          segment_text == Strip(PySlice(source_text, segment_start, segment_end))
          appended ==
              IF segment_text # <<>>
              THEN Append(slices, SentenceSlice(segment_text, segment_start,
                                                segment_end, paragraph_index))
              ELSE slices
          next_start ==
              IF segment_end <= segment_start
              THEN PyMin(segment_start + max_chars, end_idx) ELSE segment_end
      IN  IF next_start <= segment_start THEN appended
          ELSE CutLoop(source_text, next_start, end_idx, max_chars,
                       paragraph_index, appended)

\* The loop over the sentences of one paragraph; st = [slices, search_start,
\* cuts], where cuts records for each sentence handed to the while loop its
\* offsets, its paragraph and the positions first..last of its sub-segments
\* in slices
RECURSIVE SentenceLoop(_, _, _, _, _, _)
SentenceLoop(source_text, sentences, k, paragraph_index, max_chars, st) ==
    IF k > Len(sentences) THEN st
    ELSE
      LET sentence == sentences[k]
          forward == Find(source_text, sentence, st.search_start)
          idx == IF forward = -1 THEN Find(source_text, sentence, 0) ELSE forward
          end_idx == idx + Len(sentence)
      IN  IF sentence = <<>> \/ idx = -1
          THEN SentenceLoop(source_text, sentences, k + 1, paragraph_index, max_chars, st)
          ELSE IF Len(sentence) <= max_chars
          THEN SentenceLoop(source_text, sentences, k + 1, paragraph_index, max_chars,
                   [slices |-> Append(st.slices,
                                      SentenceSlice(sentence, idx, end_idx, paragraph_index)),
                    search_start |-> end_idx,
                    cuts |-> st.cuts])
          ELSE SentenceLoop(source_text, sentences, k + 1, paragraph_index, max_chars,
                   LET cut == CutLoop(source_text, idx, end_idx, max_chars,
                                      paragraph_index, st.slices)
                   IN  [slices |-> cut,
                        search_start |-> end_idx,
                        cuts |-> Append(st.cuts,
                                        [start |-> idx, end |-> end_idx,
                                         paragraph_index |-> paragraph_index,
                                         first |-> Len(st.slices) + 1,
                                         last |-> Len(cut)])])

\* The loop over the paragraphs; paragraph_index is the 0-based enumerate index
RECURSIVE SliceParagraphLoop(_, _, _, _, _)
SliceParagraphLoop(source_text, paragraphs, p, max_chars, st) ==
    IF p > Len(paragraphs) THEN st
    ELSE
      LET sentences == split_sentences(paragraphs[p].text)
      IN  IF sentences = <<>>
          THEN SliceParagraphLoop(source_text, paragraphs, p + 1, max_chars, st)
          ELSE SliceParagraphLoop(source_text, paragraphs, p + 1, max_chars,
                   SentenceLoop(source_text, sentences, 1, p - 1, max_chars,
                       [st EXCEPT !.search_start =
                            PyMax(st.search_start, paragraphs[p].start)]))

\* The for loop of build_sentence_slices over the paragraphs
SliceLoop(source_text, max_chars) ==
    SliceParagraphLoop(source_text, Paragraphs(source_text), 1, max_chars,
                       [slices |-> <<>>, search_start |-> 0, cuts |-> <<>>])

\* build_sentence_slices(source_text) under settings.max_prompt_chars = max_chars
build_sentence_slices(source_text, max_chars) ==
    IF Strip(source_text) = <<>> THEN <<>>
    ELSE
      LET slices == SliceLoop(source_text, max_chars).slices
          stripped == Strip(source_text)
          found == Find(source_text, stripped, 0)
          idx == IF found = -1 THEN 0 ELSE found
      IN  IF slices # <<>> THEN slices
          ELSE <<SentenceSlice(stripped, idx, idx + Len(stripped), 0)>>

\* ------------------------------------------------------------------------
\* Heading stripper (src/backend/app/utils/text.py)
\* ------------------------------------------------------------------------

\* len(stripped) > 80
MaxHeadingChars == 80

\* text.splitlines(): the lines without their line break
SplitLines(s) ==
    LET kept == SplitLinesKeep(s)
    IN  [k \in 1..Len(kept) |->
           IF kept[k][Len(kept[k])] = "\n" THEN SubSeq(kept[k], 1, Len(kept[k]) - 1)
           ELSE kept[k]]

\* ^chapter\s+\w+$ and ^part\s+\w+$, ignoring case: the label, a run of
\* whitespace, a run of word characters
MatchesLabel(stripped, label) ==
    /\ StartsWith(Lower(stripped), label)
    /\ \E w \in (Len(label) + 2)..Len(stripped) :
          /\ \A i \in (Len(label) + 1)..(w - 1) : IsSpace(stripped[i])
          /\ \A i \in w..Len(stripped) : IsWordChar(stripped[i])

\* ^\d+$
AllDigits(stripped) ==
    stripped # <<>> /\ \A i \in 1..Len(stripped) : IsDigit(stripped[i])

\* ^[ivxlcdm]+$, ignoring case
AllRoman(stripped) ==
    /\ stripped # <<>>
    /\ \A i \in 1..Len(stripped) :
          ToLower(stripped[i]) \in {"i", "v", "x", "l", "c", "d", "m"}

looks_like_heading(value) ==
    LET stripped == Strip(value)
    IN  IF stripped = <<>> THEN FALSE
        ELSE IF Len(stripped) > MaxHeadingChars THEN FALSE
        ELSE IF \/ MatchesLabel(stripped, <<"c", "h", "a", "p", "t", "e", "r">>)
                \/ MatchesLabel(stripped, <<"p", "a", "r", "t">>)
                \/ AllDigits(stripped)
                \/ AllRoman(stripped)
        THEN TRUE
        ELSE /\ \E i \in 1..Len(stripped) : IsAlpha(stripped[i])
             /\ stripped = Upper(stripped)

\* A HeadingInfo
HeadingInfo(text, char_index) == [text |-> text, char_index |-> char_index]

\* The loop over the lines; index is the 0-based enumerate index
RECURSIVE HeadingLoop(_, _, _, _, _)
HeadingLoop(lines, index, removed, cleaned_lines, output_offset) ==
    IF index >= Len(lines)
    THEN [text |-> Join("\n", cleaned_lines), removed |-> removed]
    ELSE
      LET line == lines[index + 1]
          stripped == Strip(line)
          prev_blank == index = 0 \/ Strip(lines[index]) = <<>>
          next_blank == index = Len(lines) - 1 \/ Strip(lines[index + 2]) = <<>>
      IN  IF stripped = <<>>
          THEN HeadingLoop(lines, index + 1, removed, Append(cleaned_lines, line),
                           output_offset)
          ELSE IF prev_blank /\ next_blank /\ looks_like_heading(line)
          THEN HeadingLoop(lines, index + 1,
                           Append(removed, HeadingInfo(stripped, output_offset)),
                           cleaned_lines, output_offset)
          ELSE HeadingLoop(lines, index + 1, removed, Append(cleaned_lines, line),
                           output_offset + Len(line) + 1)

\* strip_headings(text): the cleaned text and the removed headings
strip_headings(text) ==
    IF text = <<>> THEN [text |-> text, removed |-> <<>>]
    ELSE HeadingLoop(SplitLines(text), 0, <<>>, <<>>, 0)

\* ------------------------------------------------------------------------
\* Scene titles (format_heading_text and generate_scene_title of ingest)
\* ------------------------------------------------------------------------

ShortWordChars == 3

TitleWords == 8

TitlePunctuation == {".", ";", ":", "!", "?"}

\* s.strip(chars)
StripChars(s, chars) ==
    LET keep == {i \in 1..Len(s) : s[i] \notin chars}
    IN  IF keep = {} THEN <<>> ELSE SubSeq(s, SetMin(keep), SetMax(keep))

\* str.isupper: no lower-case letter and at least one upper-case letter
IsUpperStr(s) ==
    /\ \A k \in 1..Len(s) : ~IsLower(s[k])
    /\ \E k \in 1..Len(s) : IsUpper(s[k])

\* str.capitalize
Capitalize(s) ==
    IF s = <<>> THEN <<>> ELSE <<ToUpper(s[1])>> \o Lower(Tail(s))

\* words[:n]
FirstN(words, n) == SubSeq(words, 1, PyMin(n, Len(words)))

\* str(n) for n >= 0
DigitChars == <<"0", "1", "2", "3", "4", "5", "6", "7", "8", "9">>

RECURSIVE Decimal(_)
Decimal(n) ==
    IF n < 10 THEN <<DigitChars[n + 1]>>
    ELSE Decimal(n \div 10) \o <<DigitChars[(n % 10) + 1]>>

\* f"Scene {scene_index}"
SceneLabel(scene_index) == <<"S", "c", "e", "n", "e", " ">> \o Decimal(scene_index)

\* format_heading_text(raw); <<>> stands for None, on both sides
format_heading_text(raw) ==
    LET stripped == Strip(raw)
    IN  IF stripped = <<>> THEN <<>>
        ELSE IF IsUpperStr(stripped)
        THEN LET words == SplitWords(stripped)
             IN  Join(" ",
                      [k \in 1..Len(words) |->
                         IF Len(words[k]) <= ShortWordChars /\ IsUpperStr(words[k])
                         THEN words[k]
                         ELSE Capitalize(words[k])])
        ELSE stripped

\* A title that is taken as the classifier wrote it, "Scene ..." included
TitleBaseKeepingScene(existing_title) == Strip(existing_title)

\* base: the classifier's title, dropped when it starts with "scene"
TitleBase(existing_title) ==
    LET base == Strip(existing_title)
    IN  IF StartsWith(Lower(base), <<"s", "c", "e", "n", "e">>) THEN <<>> ELSE base

\* generate_scene_title(existing_title, heading_text, default_sentence,
\* scene_index); <<>> stands for a title or heading that is None
generate_scene_title(existing_title, heading_text, default_sentence, scene_index) ==
    LET base == TitleBase(existing_title)
        formatted_heading == format_heading_text(heading_text)
    IN  IF formatted_heading # <<>>
        THEN IF base # <<>> /\ ~Contains(Lower(base), Lower(formatted_heading))
             THEN formatted_heading \o <<":", " ">> \o base
             ELSE IF base = <<>> THEN formatted_heading
             ELSE base
        ELSE IF base # <<>> THEN base
        ELSE LET cleaned == StripChars(Strip(default_sentence), TitlePunctuation)
                 snippet == Strip(Join(" ", FirstN(SplitWords(cleaned), TitleWords)))
             IN  IF cleaned = <<>> THEN SceneLabel(scene_index)
                 ELSE IF snippet = <<>> THEN SceneLabel(scene_index)
                 ELSE <<ToUpper(snippet[1])>> \o Tail(snippet)

\* ------------------------------------------------------------------------
\* Headings of scenes (heading_sentence_map and resolve_heading of ingest)
\* ------------------------------------------------------------------------

\* The while loop: the first sentence whose slice starts at or after char_index
RECURSIVE FirstSliceAt(_, _, _)
FirstSliceAt(slices, char_index, sentence_idx) ==
    IF sentence_idx < Len(slices) /\ slices[sentence_idx + 1].start < char_index
    THEN FirstSliceAt(slices, char_index, sentence_idx + 1)
    ELSE sentence_idx

\* The for loop over stripped_headings: (sentence index, heading text) pairs
RECURSIVE HeadingEntries(_, _)
HeadingEntries(headings, slices) ==
    IF headings = <<>> THEN <<>>
    ELSE LET heading == Head(headings)
             heading_text == Strip(heading.text)
             found == FirstSliceAt(slices, heading.char_index, 0)
             sentence_idx == IF found >= Len(slices) THEN Len(slices) - 1 ELSE found
         IN  IF heading_text = <<>> THEN HeadingEntries(Tail(headings), slices)
             ELSE <<[idx |-> PyMax(sentence_idx, 0), text |-> heading_text]>>
                    \o HeadingEntries(Tail(headings), slices)

\* list.sort(key=lambda item: item[0]): stable, by sentence index
RECURSIVE SortByIndex(_)
SortByIndex(entries) ==
    IF entries = <<>> THEN <<>>
    ELSE LET least == SetMin({entries[k].idx : k \in 1..Len(entries)})
             first == SetMin({k \in 1..Len(entries) : entries[k].idx = least})
         IN  <<entries[first]>>
               \o SortByIndex(SubSeq(entries, 1, first - 1)
                                \o SubSeq(entries, first + 1, Len(entries)))

\* heading_sentence_map
heading_sentence_map(headings, slices) ==
    IF headings # <<>> /\ slices # <<>>
    THEN SortByIndex(HeadingEntries(headings, slices))
    ELSE <<>>

\* The mutation of resolve_heading that keeps the first heading it meets
resolve_first_heading(map, sentence_index, heading_text) ==
    IF map # <<>> /\ Head(map).idx <= sentence_index THEN Head(map).text
    ELSE heading_text

\* resolve_heading(sentence_index); <<>> stands for None
RECURSIVE resolve_heading(_, _, _)
resolve_heading(map, sentence_index, heading_text) ==
    IF map = <<>> THEN heading_text
    ELSE IF Head(map).idx <= sentence_index
    THEN resolve_heading(Tail(map), sentence_index, Head(map).text)
    ELSE heading_text

\* ------------------------------------------------------------------------
\* Sentence chunker (src/backend/app/utils/chunking.py)
\* ------------------------------------------------------------------------

\* default min_chunk_tokens of chunk_sentence_pairs
MinChunkTokens == 128

\* approx_chars = tokens_per_chunk * 4
CharsPerToken == 4

\* default overlap_ratio = 0.1, kept as the fraction OverlapNum / OverlapDen
OverlapNum == 1

OverlapDen == 10

ApproxChars(max_tokens) == PyMax(max_tokens, MinChunkTokens) * CharsPerToken

\* max_chunk_chars after "if max_chunk_chars is None or max_chunk_chars <= 0";
\* the optional argument is <<>> for None and <<n>> for the integer n
EffectiveChunkCap(max_chunk_chars, approx_chars) ==
    IF max_chunk_chars = <<>> THEN approx_chars
    ELSE IF max_chunk_chars[1] <= 0 THEN approx_chars
    ELSE max_chunk_chars[1]

\* english_sentences padded with "" up to the number of French sentences
PadEnglish(french, english) ==
    IF Len(english) < Len(french)
    THEN english \o [i \in 1..(Len(french) - Len(english)) |-> <<>>]
    ELSE english

\* sentence_chars of one aligned pair
SentenceChars(fr_sentence, en_sentence) ==
    PyMax(IF en_sentence # <<>> THEN Len(en_sentence) ELSE Len(fr_sentence), 1)

\* FillChunk whose cap test is off by one
RECURSIVE FillChunkOffByOne(_, _, _, _, _, _, _)
FillChunkOffByOne(french, english, start, end, measured_chars, cap, approx_chars) ==
    IF ~(end < Len(french))
    THEN [end |-> end, measured_chars |-> measured_chars]
    ELSE
      LET sentence_chars ==
              PyMax(IF english[end + 1] # <<>> THEN Len(english[end + 1])
                    ELSE Len(french[end + 1]), 1)
      IN  IF measured_chars + sentence_chars > cap + 1 /\ end > start
          THEN [end |-> end, measured_chars |-> measured_chars]
          ELSE IF measured_chars + sentence_chars >= approx_chars
          THEN [end |-> end + 1, measured_chars |-> measured_chars + sentence_chars]
          ELSE FillChunkOffByOne(french, english, start, end + 1,
                              measured_chars + sentence_chars, cap, approx_chars)

\* The inner while loop: from `end` on, take sentences into the chunk that
\* began at `start`; yields the final end and measured_chars.
RECURSIVE FillChunk(_, _, _, _, _, _, _)
FillChunk(french, english, start, end, measured_chars, cap, approx_chars) ==
    IF ~(end < Len(french))
    THEN [end |-> end, measured_chars |-> measured_chars]
    ELSE
      LET sentence_chars == SentenceChars(french[end + 1], english[end + 1])
      IN  IF measured_chars + sentence_chars > cap /\ end > start
          THEN [end |-> end, measured_chars |-> measured_chars]
          ELSE IF measured_chars + sentence_chars >= approx_chars
          THEN [end |-> end + 1, measured_chars |-> measured_chars + sentence_chars]
          ELSE FillChunk(french, english, start, end + 1,
                         measured_chars + sentence_chars, cap, approx_chars)

SentenceChunk(index, sentence_start, sentence_end, english, french, char_count) ==
    [index |-> index, sentence_start |-> sentence_start, sentence_end |-> sentence_end,
     english_sentences |-> english, french_sentences |-> french,
     char_count |-> char_count]

\* The chunk one iteration of the outer loop builds from `start`
\* (english already padded)
ChunkFrom(french, english, start, chunk_index, cap, approx_chars) ==
    LET filled == FillChunk(french, english, start, start, 0, cap, approx_chars)
    IN  SentenceChunk(chunk_index, start, filled.end,
                      SubSeq(english, start + 1, filled.end),
                      SubSeq(french, start + 1, filled.end),
                      filled.measured_chars)

\* The mutation of OverlapSentences that rounds downwards
OverlapSentencesFloor(count, num, den) == (count * num) \div den

\* int((end - start) * overlap_ratio) for overlap_ratio = num / den, den > 0:
\* int() rounds towards zero
OverlapSentences(count, num, den) ==
    IF count * num >= 0 THEN (count * num) \div den
    ELSE -((-(count * num)) \div den)

\* The mutation of NextChunkStart that skips the sentence after the chunk
NextChunkStartAfterGap(chunk, total_sentences, num, den) ==
    PyMin(chunk.sentence_end + 1, total_sentences)

\* start of the next chunk
NextChunkStart(chunk, total_sentences, num, den) ==
    LET overlap_sentences ==
            OverlapSentences(chunk.sentence_end - chunk.sentence_start, num, den)
        next_start == PyMax(chunk.sentence_end - overlap_sentences,
                            chunk.sentence_start + 1)
    IN  PyMin(next_start, total_sentences)

\* The outer while loop run to its end
RECURSIVE ChunkLoop(_, _, _, _, _, _, _, _)
ChunkLoop(french, english, start, chunk_list, cap, approx_chars, num, den) ==
    IF ~(start < Len(french)) THEN chunk_list
    ELSE
      LET chunk == ChunkFrom(french, english, start, Len(chunk_list), cap, approx_chars)
      IN  IF chunk.french_sentences = <<>> THEN chunk_list
          ELSE IF chunk.sentence_end >= Len(french) THEN Append(chunk_list, chunk)
          ELSE ChunkLoop(french, english,
                         NextChunkStart(chunk, Len(french), num, den),
                         Append(chunk_list, chunk), cap, approx_chars, num, den)

chunk_sentence_pairs(french, english, max_tokens, num, den, max_chunk_chars) ==
    IF french = <<>> THEN <<>>
    ELSE ChunkLoop(french, PadEnglish(french, english), 0, <<>>,
                   EffectiveChunkCap(max_chunk_chars, ApproxChars(max_tokens)),
                   ApproxChars(max_tokens), num, den)

\* ------------------------------------------------------------------------
\* Prompt segment rebalancer (build_prompt_segments and its caller)
\* ------------------------------------------------------------------------

\* cutoff < allowed_translation * 0.3, in integers
BelowThreshold(cutoff, allowed_translation) == 10 * cutoff < 3 * allowed_translation

\* TruncatedTranslation without the truncation
UntruncatedTranslation(slice_text, translation, max_chars) == translation

\* translation_text of one sentence after the truncation block
TruncatedTranslation(slice_text, translation, max_chars) ==
    LET allowed_translation == max_chars - Len(slice_text) - 1
        space == RFind(translation, " ", 0, allowed_translation)
        cutoff == IF space = -1 \/ BelowThreshold(space, allowed_translation)
                  THEN allowed_translation ELSE space
    IN  IF translation = <<>> THEN <<>>
        ELSE IF allowed_translation <= 0 THEN <<>>
        ELSE IF Len(translation) > allowed_translation
        THEN Strip(PySlice(translation, 0, cutoff))
        ELSE translation

\* segment_chars of one sentence with its (truncated) translation
SegmentChars(slice_text, translation_text) ==
    PyMax(Len(slice_text)
            + (IF translation_text # <<>> THEN Len(translation_text) + 1 ELSE 0), 1)

\* One prompt segment: the tuple ("\n".join(current_fr), current_en.copy()).
\* `slices` is a history field: the sentence slices the text was joined from.
PromptSegment(current_fr, current_en, current_slices) ==
    [text |-> Join("\n", current_fr), translations |-> current_en,
     slices |-> current_slices]

\* SegmentLoop that forgets to clear the open segment after flushing it
RECURSIVE SegmentLoopNoClear(_, _, _, _, _, _)
SegmentLoopNoClear(slices, translations, k, max_chars, segments, cur) ==
    IF k > PyMin(Len(slices), Len(translations))
    THEN IF cur.fr # <<>>
         THEN Append(segments, PromptSegment(cur.fr, cur.en, cur.slices))
         ELSE segments
    ELSE
      LET slice_obj == slices[k]
          translation_text == TruncatedTranslation(slice_obj.text, translations[k], max_chars)
          segment_chars == SegmentChars(slice_obj.text, translation_text)
          flush == cur.fr # <<>> /\ cur.chars + segment_chars > max_chars
      IN  SegmentLoopNoClear(slices, translations, k + 1, max_chars,
                      IF flush
                      THEN Append(segments, PromptSegment(cur.fr, cur.en, cur.slices))
                      ELSE segments,
                      [fr |-> Append(cur.fr, slice_obj.text),
                       en |-> Append(cur.en, translation_text),
                       slices |-> Append(cur.slices, slice_obj),
                       chars |-> (IF flush THEN 0 ELSE cur.chars) + segment_chars])

\* The for loop of build_prompt_segments over zip(slices, translations);
\* cur = [fr, en, slices, chars] is the open segment
RECURSIVE SegmentLoop(_, _, _, _, _, _)
SegmentLoop(slices, translations, k, max_chars, segments, cur) ==
    IF k > PyMin(Len(slices), Len(translations))
    THEN IF cur.fr # <<>>
         THEN Append(segments, PromptSegment(cur.fr, cur.en, cur.slices))
         ELSE segments
    ELSE
      LET slice_obj == slices[k]
          translation_text == TruncatedTranslation(slice_obj.text, translations[k], max_chars)
          segment_chars == SegmentChars(slice_obj.text, translation_text)
          flush == cur.fr # <<>> /\ cur.chars + segment_chars > max_chars
          base == IF flush THEN [fr |-> <<>>, en |-> <<>>, slices |-> <<>>, chars |-> 0]
                  ELSE cur
      IN  SegmentLoop(slices, translations, k + 1, max_chars,
                      IF flush
                      THEN Append(segments, PromptSegment(cur.fr, cur.en, cur.slices))
                      ELSE segments,
                      [fr |-> Append(base.fr, slice_obj.text),
                       en |-> Append(base.en, translation_text),
                       slices |-> Append(base.slices, slice_obj),
                       chars |-> base.chars + segment_chars])

build_prompt_segments(slices, translations, max_chars) ==
    IF slices = <<>> THEN <<>>
    ELSE SegmentLoop(slices, translations, 1, max_chars, <<>>,
                     [fr |-> <<>>, en |-> <<>>, slices |-> <<>>, chars |-> 0])

\* combined_len(item) = len(item[0]) + len(" ".join(filter(None, item[1])))
combined_len(segment) ==
    Len(segment.text) + Len(Join(" ", FilterNonEmpty(segment.translations)))

\* ------------------------------------------------------------------------
\* Question persistence (the last loop of ingest's scene loop)
\* ------------------------------------------------------------------------

OptionsPerQuestion == 4

\* The option loop: options whose text is not blank, up to the fourth
RECURSIVE ParseOptions(_, _)
ParseOptions(options_data, parsed_options) ==
    IF options_data = <<>> THEN parsed_options
    ELSE LET option_data == Head(options_data)
             text == Strip(option_data.text)
             parsed == IF text # <<>>
                       THEN Append(parsed_options,
                                   [text |-> text, is_correct |-> option_data.is_correct])
                       ELSE parsed_options
         IN  IF Len(parsed) = OptionsPerQuestion THEN parsed
             ELSE ParseOptions(Tail(options_data), parsed)

\* sum(1 for _, flag in parsed_options if flag)
CorrectCount(options) == Cardinality({k \in 1..Len(options) : options[k].is_correct})

\* The persistence loop over aggregated[from..]: the rows added, each with
\* the position `source` of its payload in the aggregated list
RECURSIVE PersistLoop(_, _, _)
PersistLoop(aggregated, from, added) ==
    IF from > Len(aggregated) THEN added
    ELSE LET question_data == aggregated[from]
             prompt == Strip(question_data.prompt)
             parsed_options == ParseOptions(question_data.options, <<>>)
         IN  IF prompt = <<>> THEN PersistLoop(aggregated, from + 1, added)
             ELSE IF Len(parsed_options) # OptionsPerQuestion
             THEN PersistLoop(aggregated, from + 1, added)
             ELSE IF CorrectCount(parsed_options) # 1
             THEN PersistLoop(aggregated, from + 1, added)
             ELSE PersistLoop(aggregated, from + 1,
                              Append(added, [source |-> from, prompt |-> prompt,
                                             options |-> parsed_options]))

PersistedQuestions(aggregated) ==
    PersistLoop(SubSeq(aggregated, 1, PyMin(4, Len(aggregated))), 1, <<>>)

\* ------------------------------------------------------------------------
\* State
\* ------------------------------------------------------------------------

VARIABLES
    pc,                         \* position of the running operation
    \* settings
    max_prompt_chars, max_translation_sentences, max_segment_tokens,
    \* the document of one ingest call
    book_text, sentence_slices, french_sentences, english_sentences,
    \* translate_in_batches
    tr_index, batch, char_count, results, translate_calls,
    \* chunk_sentence_pairs
    chunk_args, chunk_start, chunks,
    \* scene boundary reconciler
    chunk_pos, proposals_seen, raw_scenes, last_scene_end_idx, last_scene_summary,
    \* scene merger
    merge_pos, merged_scenes, seen_normalized, merge_log,
    \* prompt segments of one finalized scene
    scene, effective_cap, prompt_segments, vocab_prompts, question_prompts,
    aggregated_questions, persisted_questions,
    \* the extracted text and the headings strip_headings removed from it
    raw_text, stripped_headings,
    \* one ingest call: progress callback, classifier calls, scene loop, commit
    has_callback, progress_calls, classifier_calls, scene_pos, created_scenes,
    committed,
    \* generate_scene_title
    title_args, scene_title,
    \* upload_book's event stream: the queue, the worker thread and the exception
    \* it caught, the generator
    queue, enqueued, yielded, worker, producer, stream_total, reported, raised

vars_settings == <<max_prompt_chars, max_translation_sentences, max_segment_tokens>>

vars_doc == <<book_text, sentence_slices, french_sentences, english_sentences>>

vars_translate == <<tr_index, batch, char_count, results, translate_calls>>

vars_chunk == <<chunk_args, chunk_start, chunks>>

vars_reconcile ==
    <<chunk_pos, proposals_seen, raw_scenes, last_scene_end_idx, last_scene_summary>>

vars_merge == <<merge_pos, merged_scenes, seen_normalized, merge_log>>

vars_segments ==
    <<scene, effective_cap, prompt_segments, vocab_prompts, question_prompts,
      aggregated_questions, persisted_questions>>

vars_text == <<raw_text, stripped_headings>>

vars_run ==
    <<has_callback, progress_calls, classifier_calls, scene_pos, created_scenes,
      committed>>

vars_title == <<title_args, scene_title>>

vars_stream ==
    <<queue, enqueued, yielded, worker, producer, stream_total, reported, raised>>

vars == <<pc, vars_settings, vars_doc, vars_translate, vars_chunk, vars_reconcile,
          vars_merge, vars_segments, vars_text, vars_run, vars_title, vars_stream>>

\* The values each group of variables has before its operation has started
TranslateIdle ==
    /\ tr_index = 0
    /\ batch = <<>>
    /\ char_count = 0
    /\ results = <<>>
    /\ translate_calls = <<>>

ChunkIdle ==
    /\ chunk_args = [max_tokens |-> 0, num |-> OverlapNum, den |-> OverlapDen,
                     max_chunk_chars |-> <<>>]
    /\ chunk_start = 0
    /\ chunks = <<>>

ReconcileIdle ==
    /\ chunk_pos = 0
    /\ proposals_seen = 0
    /\ raw_scenes = <<>>
    /\ last_scene_end_idx = -1
    /\ last_scene_summary = <<>>

MergeIdle ==
    /\ merge_pos = 0
    /\ merged_scenes = <<>>
    /\ seen_normalized = {}
    /\ merge_log = <<>>

SegmentsIdle ==
    /\ scene = [sentence_slice |-> <<>>, translations |-> <<>>, content |-> <<>>]
    /\ effective_cap = 0
    /\ prompt_segments = <<>>
    /\ vocab_prompts = <<>>
    /\ question_prompts = <<>>
    /\ aggregated_questions = <<>>
    /\ persisted_questions = <<>>

\* default of settings.max_segment_tokens
DefaultSegmentTokens == 512

TextIdle ==
    /\ raw_text = <<>>
    /\ stripped_headings = <<>>

RunIdle ==
    /\ has_callback = FALSE
    /\ progress_calls = <<>>
    /\ classifier_calls = <<>>
    /\ scene_pos = 0
    /\ created_scenes = 0
    /\ committed = FALSE

TitleIdle ==
    /\ title_args = <<>>
    /\ scene_title = <<>>

StreamIdle ==
    /\ queue = <<>>
    /\ enqueued = <<>>
    /\ yielded = <<>>
    /\ worker = "idle"
    /\ producer = "idle"
    /\ stream_total = 0
    /\ reported = 0
    /\ raised = <<>>

\* [slice_.text for slice_ in sentence_slices]
SliceTexts(slices) == [k \in 1..Len(slices) |-> slices[k].text]

\* A document made of the given sentence texts, consecutive ones separated by
\* the given whitespace strings
RECURSIVE DocOf(_, _)
DocOf(texts, seps) ==
    IF texts = <<>> THEN <<>>
    ELSE IF Len(texts) = 1 THEN texts[1]
    ELSE texts[1] \o seps[1] \o DocOf(Tail(texts), Tail(seps))

\* ------------------------------------------------------------------------
\* The head of ingest: strip_headings, then build_sentence_slices
\* ------------------------------------------------------------------------

\* Largest number of lines of an extracted text
MaxTextLines == 3

\* The lines of the extracted texts: blank, a sentence, a roman numeral, a
\* part label, two sentences of which the first is longer than the small cap
TextLines ==
    {<<>>, <<"a", ".">>, <<"I">>, <<"P", "a", "r", "t", " ", "1">>,
     <<"b", " ", "c", ".", " ", "a", ".">>}

\* max_prompt_chars of the slicer runs
TextCaps == {3, 100}

RawTexts ==
    {Join("\n", ls) : ls \in UNION {[1..n -> TextLines] : n \in 0..MaxTextLines}}

InitText ==
    /\ pc = "start"
    /\ raw_text \in RawTexts
    /\ stripped_headings = <<>>
    /\ max_prompt_chars \in TextCaps
    /\ max_translation_sentences = 1
    /\ max_segment_tokens = DefaultSegmentTokens
    /\ book_text = <<>>
    /\ sentence_slices = <<>>
    /\ french_sentences = <<>>
    /\ english_sentences = <<>>
    /\ TranslateIdle /\ ChunkIdle /\ ReconcileIdle /\ MergeIdle /\ SegmentsIdle
    /\ RunIdle /\ TitleIdle
    /\ StreamIdle

\* book_text, stripped_headings = strip_headings(extract_pdf_text(pdf_bytes))
StripHeadings ==
    /\ pc = "start"
    /\ book_text' = strip_headings(raw_text).text
    /\ stripped_headings' = strip_headings(raw_text).removed
    /\ pc' = "slice"
    /\ UNCHANGED <<vars_stream, vars_settings, raw_text, sentence_slices, french_sentences,
                   english_sentences, vars_translate, vars_chunk, vars_reconcile,
                   vars_merge, vars_segments, vars_run, vars_title>>

\* sentence_slices = build_sentence_slices(book_text) and french_sentences
BuildSlices ==
    /\ pc = "slice"
    /\ sentence_slices' = build_sentence_slices(book_text, max_prompt_chars)
    /\ french_sentences' = SliceTexts(sentence_slices')
    /\ pc' = "translate"
    /\ UNCHANGED <<vars_stream, vars_settings, vars_text, book_text, english_sentences,
                   vars_translate, vars_chunk, vars_reconcile, vars_merge,
                   vars_segments, vars_run, vars_title>>

NextText == StripHeadings \/ BuildSlices

SpecText == InitText /\ [][NextText]_vars

\* --- Properties of the slices and the removed headings --------------------

\* C11: every slice produced by build_sentence_slices from the cleaned text
\* satisfies start <= end and text == cleaned_text[start:end] after trimming,
\* and the slices are in non-decreasing start order, also when a long
\* sentence is cut into sub-segments.
C11_SlicesMatchText ==
    /\ \A k \in 1..Len(sentence_slices) :
          /\ sentence_slices[k].start <= sentence_slices[k].end
          /\ sentence_slices[k].text
                = Strip(PySlice(book_text, sentence_slices[k].start,
                                sentence_slices[k].end))
    /\ \A k \in 1..(Len(sentence_slices) - 1) :
          sentence_slices[k].start <= sentence_slices[k + 1].start

\* A heading was removed and a sentence was cut into sub-segments of which
\* one had to be trimmed
C11_Witness ==
    /\ pc = "translate"
    /\ stripped_headings # <<>>
    /\ Len(sentence_slices) >= 3
    /\ \E k \in 1..Len(sentence_slices) :
          sentence_slices[k].text
             # PySlice(book_text, sentence_slices[k].start, sentence_slices[k].end)

\* The 0-based indexes of the lines of the extracted text that strip_headings
\* removes
RemovedLines ==
    LET lines == SplitLines(raw_text)
    IN  {i \in 0..(Len(lines) - 1) :
           /\ Strip(lines[i + 1]) # <<>>
           /\ i = 0 \/ Strip(lines[i]) = <<>>
           /\ i = Len(lines) - 1 \/ Strip(lines[i + 2]) = <<>>
           /\ looks_like_heading(lines[i + 1])}

\* The length of the cleaned text made of the lines retained before line i,
\* blank ones included, each with its line separator
RetainedLength(i) ==
    LET lines == SplitLines(raw_text)
        kept == {j \in 0..(i - 1) : j \notin RemovedLines}
    IN  SumLen([j \in 1..i |-> IF (j - 1) \in kept THEN Append(lines[j], "\n")
                                ELSE <<>>])

\* The line of the k-th removed heading
RemovedLine(k) ==
    CHOOSE i \in RemovedLines : Cardinality({j \in RemovedLines : j < i}) = k - 1

\* C17 as stated: the char_index of every removed heading equals the length
\* of the cleaned text produced by the lines retained before that heading
\* (all retained lines, blank ones included, each with its line separator).
C17_CharIndexIsCleanedOffset ==
    pc # "start" =>
       \A k \in 1..Len(stripped_headings) :
           stripped_headings[k].char_index = RetainedLength(RemovedLine(k))

\* ------------------------------------------------------------------------
\* generate_scene_title called on its own
\* ------------------------------------------------------------------------

\* Classifier titles: none, blank, "Scene ..." in two spellings, plain ones
ExistingTitles ==
    {<<>>, <<" ">>,
     <<"S", "c", "e", "n", "e", " ", "2">>,
     <<" ", "s", "c", "e", "n", "e", "r", "y">>,
     <<"U", "n", " ", "b", " ">>,
     <<"p", "a", "r", "t", " ", "i", ":", " ", "b">>}

\* Headings: none, blank, upper-case ones, mixed-case ones
HeadingTexts ==
    {<<>>, <<" ">>,
     <<"P", "A", "R", "T", " ", "I">>,
     <<" ", "C", "H", "A", "P", "T", "E", "R", " ", "T", "W", "O">>,
     <<"U", "n", " ", "b">>}

\* First sentences: empty, punctuation only, short, longer than TitleWords
DefaultSentences ==
    {<<>>, <<"?">>,
     <<"a", " ", "b", ".">>,
     <<" ", "!", "a", ".", " ", "b", "?">>,
     <<"a", " ", "b", " ", "c", " ", "d", " ", "e", " ", "f", " ", "g", " ", "h", " ", "i", " ", "j", ".">>}

SceneIndexes == {1, 12}

TitleArgs ==
    [existing_title : ExistingTitles, heading_text : HeadingTexts,
     default_sentence : DefaultSentences, scene_index : SceneIndexes]

InitTitle ==
    /\ pc = "title"
    /\ title_args \in TitleArgs
    /\ scene_title = <<>>
    /\ max_prompt_chars = 100
    /\ max_translation_sentences = 1
    /\ max_segment_tokens = DefaultSegmentTokens
    /\ book_text = <<>> /\ sentence_slices = <<>>
    /\ french_sentences = <<>> /\ english_sentences = <<>>
    /\ TranslateIdle /\ ChunkIdle /\ ReconcileIdle /\ MergeIdle /\ SegmentsIdle
    /\ TextIdle /\ RunIdle
    /\ StreamIdle

\* scene_title = generate_scene_title(scene_data.get("title"), heading_text,
\* primary_sentence, index)
GenerateSceneTitle ==
    /\ pc = "title"
    /\ scene_title' = generate_scene_title(title_args.existing_title,
                                           title_args.heading_text,
                                           title_args.default_sentence,
                                           title_args.scene_index)
    /\ pc' = "titled"
    /\ UNCHANGED <<vars_stream, vars_settings, vars_doc, vars_translate, vars_chunk,
                   vars_reconcile, vars_merge, vars_segments, vars_text,
                   vars_run, title_args>>

NextTitle == GenerateSceneTitle

SpecTitle == InitTitle /\ [][NextTitle]_vars

\* The classifier gave a title that does not start with "scene"
TitleGiven ==
    LET t == Strip(title_args.existing_title)
    IN  t # <<>> /\ ~StartsWith(Lower(t), <<"s", "c", "e", "n", "e">>)

\* A non-blank heading precedes the scene
HeadingGiven == Strip(title_args.heading_text) # <<>>

\* The title the precedence rules give, the first sentence being reduced to
\* the words `words`
TitleByPrecedence(words) ==
    LET t == Strip(title_args.existing_title)
        h == format_heading_text(title_args.heading_text)
        joined == Join(" ", FirstN(words, TitleWords))
    IN  IF TitleGiven /\ HeadingGiven
        THEN IF Contains(Lower(t), Lower(h)) THEN t ELSE h \o <<":", " ">> \o t
        ELSE IF HeadingGiven THEN h
        ELSE IF TitleGiven THEN t
        ELSE IF words = <<>> THEN SceneLabel(title_args.scene_index)
        ELSE <<ToUpper(joined[1])>> \o Tail(joined)

\* C16 as stated: generate_scene_title follows the precedence (a title
\* starting with "scene" in any case counts as absent; heading and title give
\* "<heading>: <title>" unless the heading is contained in the title; a
\* heading alone gives the formatted heading; a title alone gives the title),
\* and with neither the result is the first 8 words of the first sentence
\* with the first letter upper-cased, or "Scene <n>" when there are none.
C16_TitleFollowsPrecedence ==
    pc = "titled" =>
        scene_title = TitleByPrecedence(SplitWords(title_args.default_sentence))

\* C16 amended: the same precedence, and with neither title nor heading the
\* result is made of the first 8 words of the first sentence after the
\* characters . ; : ! ? have been trimmed from both of its ends, with the
\* first letter upper-cased, or "Scene <n>" when nothing is left.
C16_TitleFollowsPrecedenceTrimmed ==
    pc = "titled" =>
        scene_title =
            TitleByPrecedence(
                SplitWords(StripChars(Strip(title_args.default_sentence),
                                      TitlePunctuation)))

\* A title was synthesized from a sentence of more than 8 words that ends
\* with a full stop
C16_Witness ==
    /\ pc = "titled"
    /\ ~TitleGiven /\ ~HeadingGiven
    /\ title_args.existing_title # <<>>
    /\ Len(SplitWords(title_args.default_sentence)) > TitleWords
    /\ scene_title = <<"A", " ", "b", " ", "c", " ", "d", " ", "e", " ", "f", " ", "g", " ", "h">>

\* ------------------------------------------------------------------------
\* Translation batcher: translate_in_batches(french_sentences)
\* ------------------------------------------------------------------------

\* Largest number of sentences of a document handed to the batcher
MaxTrSentences == 3

\* Largest item budget max_translation_sentences
MaxTrItems == 3

\* Character budgets max_prompt_chars of the batcher runs
TrCaps == {4, 5}

TrTexts == {<<"a", ".">>, <<"b", "b", "b", ".">>, <<"c", "c", "c", "c", "c", ".">>}

TrDocs ==
    {<<" ">>} \cup
    {DocOf(texts, [k \in 1..(Len(texts) - 1) |-> <<" ">>]) :
        texts \in UNION {[1..n -> TrTexts] : n \in 1..MaxTrSentences}}

\* The external translator's rendering of one sentence
Translation(sentence) == <<"~">> \o sentence

\* What translate_sentences(batch) may return: the translations of the first
\* `count` sentences, in order, followed by surplus items when count exceeds
\* the batch
TranslatorReturn(sentences, count) ==
    [j \in 1..count |-> IF j <= Len(sentences) THEN Translation(sentences[j])
                        ELSE <<"+">>]

ReturnCounts(sentences) == {0, Len(sentences) - 1, Len(sentences), Len(sentences) + 1} \ {-1}

\* length = max(len(text), 1)
TrLength(text) == PyMax(Len(text), 1)

\* ShouldFlush without the item budget
ShouldFlushCharsOnly(sent, count, length, max_chars, max_items) ==
    sent # <<>> /\ count + length > max_chars

\* The flush condition of the for loop
ShouldFlush(sent, count, length, max_chars, max_items) ==
    sent # <<>> /\ (count + length > max_chars \/ Len(sent) >= max_items)

\* PaddedToBatch without the padding
CutToBatch(translated, sent) == SubSeq(translated, 1, PyMin(Len(translated), Len(sent)))

\* translated, padded with "" to the batch and cut to the batch:
\* what results.extend receives
PaddedToBatch(translated, sent) ==
    LET padded == IF Len(translated) < Len(sent)
                  THEN translated \o [j \in 1..(Len(sent) - Len(translated)) |-> <<>>]
                  ELSE translated
    IN  SubSeq(padded, 1, Len(sent))

\* results padded with "" and cut to the number of input sentences
AlignedResults(translated, sentences) ==
    LET padded == IF Len(translated) < Len(sentences)
                  THEN translated \o [j \in 1..(Len(sentences) - Len(translated)) |-> <<>>]
                  ELSE translated
    IN  SubSeq(padded, 1, Len(sentences))

InitTranslate ==
    /\ pc = "translate"
    /\ max_prompt_chars \in TrCaps
    /\ max_translation_sentences \in 1..MaxTrItems
    /\ max_segment_tokens = 0
    /\ book_text \in TrDocs
    /\ sentence_slices = build_sentence_slices(book_text, max_prompt_chars)
    /\ french_sentences = SliceTexts(sentence_slices)
    /\ english_sentences = <<>>
    /\ TranslateIdle /\ ChunkIdle /\ ReconcileIdle /\ MergeIdle /\ SegmentsIdle
    /\ TextIdle /\ RunIdle /\ TitleIdle
    /\ StreamIdle

\* "if not sentences: return []"
TranslateNothing ==
    /\ pc = "translate"
    /\ french_sentences = <<>>
    /\ english_sentences' = <<>>
    /\ pc' = "translated"
    /\ UNCHANGED <<vars_stream, vars_settings, vars_text, vars_run, vars_title, book_text, sentence_slices, french_sentences,
                   vars_translate, vars_chunk, vars_reconcile, vars_merge, vars_segments>>

\* One iteration of the for loop that adds the sentence to the open batch
BatchAppend ==
    /\ pc = "translate"
    /\ tr_index < Len(french_sentences)
    /\ LET text == french_sentences[tr_index + 1]
           length == TrLength(text)
       IN  /\ ~ShouldFlush(batch, char_count, length, max_prompt_chars,
                           PyMax(max_translation_sentences, 1))
           /\ batch' = Append(batch, text)
           /\ char_count' = char_count + length
    /\ tr_index' = tr_index + 1
    /\ UNCHANGED <<vars_stream, pc, vars_settings, vars_text, vars_run, vars_title, vars_doc, results, translate_calls,
                   vars_chunk, vars_reconcile, vars_merge, vars_segments>>

\* One iteration of the for loop that first sends the open batch to the
\* translator and then starts a new batch with the sentence
BatchFlush ==
    /\ pc = "translate"
    /\ tr_index < Len(french_sentences)
    /\ LET text == french_sentences[tr_index + 1]
           length == TrLength(text)
       IN  /\ ShouldFlush(batch, char_count, length, max_prompt_chars,
                          PyMax(max_translation_sentences, 1))
           /\ \E count \in ReturnCounts(batch) :
                LET translated == TranslatorReturn(batch, count)
                IN  /\ translate_calls' = Append(translate_calls,
                            [sent |-> batch, returned |-> translated])
                    /\ results' = results \o PaddedToBatch(translated, batch)
           /\ batch' = <<text>>
           /\ char_count' = length
    /\ tr_index' = tr_index + 1
    /\ UNCHANGED <<vars_stream, pc, vars_settings, vars_text, vars_run, vars_title, vars_doc, vars_chunk, vars_reconcile,
                   vars_merge, vars_segments>>

\* After the loop: send the last batch, align the results and return them
BatchFinal ==
    /\ pc = "translate"
    /\ french_sentences # <<>>
    /\ tr_index = Len(french_sentences)
    /\ \E count \in (IF batch = <<>> THEN {0} ELSE ReturnCounts(batch)) :
         LET translated == TranslatorReturn(batch, count)
             final == IF batch # <<>>
                      THEN results \o PaddedToBatch(translated, batch)
                      ELSE results
         IN  /\ translate_calls' = IF batch # <<>>
                                   THEN Append(translate_calls,
                                            [sent |-> batch, returned |-> translated])
                                   ELSE translate_calls
             /\ results' = final
             /\ english_sentences' = AlignedResults(final, french_sentences)
    /\ pc' = "translated"
    /\ UNCHANGED <<vars_stream, vars_settings, vars_text, vars_run, vars_title, book_text, sentence_slices, french_sentences,
                   tr_index, batch, char_count,
                   vars_chunk, vars_reconcile, vars_merge, vars_segments>>

NextTranslate == TranslateNothing \/ BatchAppend \/ BatchFlush \/ BatchFinal

SpecTranslate == InitTranslate /\ [][NextTranslate]_vars

\* --- Properties of the translation batcher ------------------------------

\* The batches handed to translate_sentences so far, in call order
SentBatches == [c \in 1..Len(translate_calls) |-> translate_calls[c].sent]

\* Number of sentences sent in the calls before call c
SentBefore(c) == Len(Concat(SubSeq(SentBatches, 1, c - 1)))

\* The call that carried input sentence i (1-based)
CallOf(i) ==
    CHOOSE c \in 1..Len(translate_calls) :
        SentBefore(c) < i /\ i <= SentBefore(c) + Len(translate_calls[c].sent)

\* C4: every batch sent to the translator has summed sentence lengths
\* <= max_prompt_chars and at most max_translation_sentences items; the
\* batches sent so far followed by the open batch are exactly the sentences
\* consumed so far, whole and in input order, and once the function has
\* returned the batches sent are exactly the input.
C4_BatchesWithinBudget ==
    /\ \A c \in 1..Len(translate_calls) :
          /\ SumLen(translate_calls[c].sent) <= max_prompt_chars
          /\ Len(translate_calls[c].sent) <= max_translation_sentences
          /\ translate_calls[c].sent # <<>>
    /\ pc = "translate" =>
          Concat(SentBatches) \o batch = SubSeq(french_sentences, 1, tr_index)
    /\ pc = "translated" => Concat(SentBatches) = french_sentences

C4_Witness ==
    /\ pc = "translated"
    /\ Len(translate_calls) >= 2
    /\ \E c \in 1..Len(translate_calls) :
          /\ Len(translate_calls[c].sent) = max_translation_sentences
          /\ Len(translate_calls[c].sent) >= 2
    /\ \E c \in 1..Len(translate_calls) :
          SumLen(translate_calls[c].sent) = max_prompt_chars

\* C5: the returned list has one entry per input sentence; entry i is the
\* translation of sentence i when the translator returned an item for its
\* position in its batch, and "" otherwise; surplus items are dropped and
\* later batches are not shifted.
C5_AlignedOutput ==
    pc = "translated" =>
       /\ Len(english_sentences) = Len(french_sentences)
       /\ \A i \in 1..Len(french_sentences) :
             LET c == CallOf(i)
                 j == i - SentBefore(c)
             IN  english_sentences[i] =
                    IF j <= Len(translate_calls[c].returned)
                    THEN Translation(french_sentences[i])
                    ELSE <<>>

C5_Witness ==
    /\ pc = "translated"
    /\ Len(translate_calls) >= 2
    /\ Len(translate_calls[1].returned) < Len(translate_calls[1].sent)
    /\ Len(translate_calls[2].returned) > Len(translate_calls[2].sent)
    /\ english_sentences[Len(english_sentences)] # <<>>

\* C6: for every translate_sentences call, the batch's sentences joined by
\* single spaces are no longer than max_prompt_chars.
C6_JoinedWithinCap ==
    \A c \in 1..Len(translate_calls) :
        Len(Join(" ", translate_calls[c].sent)) <= max_prompt_chars

\* ------------------------------------------------------------------------
\* chunk_sentence_pairs called on its own, one outer-loop iteration per step
\* ------------------------------------------------------------------------

\* Largest number of sentences handed to the chunker
MaxChunkSentences == 3

ChunkFrench == {<<>>, <<"a">>, <<"a", "a", "a">>}

ChunkEnglish == {<<>>, <<"x", "x">>}

\* explicit max_chunk_chars arguments: None, 0 and positive caps
ChunkCaps == {<<>>, <<0>>, <<2>>, <<3>>}

\* a sentence as long as the nominal chunk size
NominalSentence == Rep("a", ApproxChars(0))

ChunkInputs ==
    {[french |-> fr, english |-> en] :
        fr \in UNION {[1..n -> ChunkFrench] : n \in 0..MaxChunkSentences},
        en \in UNION {[1..n -> ChunkEnglish] : n \in 0..MaxChunkSentences}}

InitChunk ==
    /\ pc = "chunk"
    /\ \E input \in ChunkInputs, lead \in {<<>>, <<NominalSentence>>} :
          /\ Len(input.english) \in {Len(input.french), Len(input.french) - 1}
          /\ french_sentences = lead \o input.french
          /\ english_sentences = input.english
    /\ \E cap \in ChunkCaps :
          chunk_args = [max_tokens |-> 0, num |-> OverlapNum, den |-> OverlapDen,
                        max_chunk_chars |-> cap]
    /\ chunk_start = 0
    /\ chunks = <<>>
    /\ max_prompt_chars = 0
    /\ max_translation_sentences = 0
    /\ max_segment_tokens = 0
    /\ book_text = <<>>
    /\ sentence_slices = <<>>
    /\ TranslateIdle /\ ReconcileIdle /\ MergeIdle /\ SegmentsIdle
    /\ TextIdle /\ RunIdle /\ TitleIdle
    /\ StreamIdle

ChunkCapOf(args) == EffectiveChunkCap(args.max_chunk_chars, ApproxChars(args.max_tokens))

\* "if not french_sentences: return []"
ChunkNothing ==
    /\ pc = "chunk"
    /\ french_sentences = <<>>
    /\ pc' = "chunked"
    /\ UNCHANGED <<vars_stream, vars_settings, vars_text, vars_run, vars_title, vars_doc, vars_translate, vars_chunk, vars_reconcile,
                   vars_merge, vars_segments>>

\* One iteration of the outer while loop that closes a chunk and goes on
ChunkNext ==
    /\ pc = "chunk"
    /\ chunk_start < Len(french_sentences)
    /\ LET chunk == ChunkFrom(french_sentences,
                              PadEnglish(french_sentences, english_sentences),
                              chunk_start, Len(chunks), ChunkCapOf(chunk_args),
                              ApproxChars(chunk_args.max_tokens))
       IN  /\ chunk.french_sentences # <<>>
           /\ chunk.sentence_end < Len(french_sentences)
           /\ chunks' = Append(chunks, chunk)
           /\ chunk_start' = NextChunkStart(chunk, Len(french_sentences),
                                            chunk_args.num, chunk_args.den)
    /\ UNCHANGED <<vars_stream, pc, vars_settings, vars_text, vars_run, vars_title, vars_doc, vars_translate, chunk_args,
                   vars_reconcile, vars_merge, vars_segments>>

\* The iteration that closes the last chunk and returns
ChunkLast ==
    /\ pc = "chunk"
    /\ chunk_start < Len(french_sentences)
    /\ LET chunk == ChunkFrom(french_sentences,
                              PadEnglish(french_sentences, english_sentences),
                              chunk_start, Len(chunks), ChunkCapOf(chunk_args),
                              ApproxChars(chunk_args.max_tokens))
       IN  /\ chunk.sentence_end >= Len(french_sentences) \/ chunk.french_sentences = <<>>
           /\ chunks' = IF chunk.french_sentences = <<>> THEN chunks
                        ELSE Append(chunks, chunk)
    /\ pc' = "chunked"
    /\ UNCHANGED <<vars_stream, vars_settings, vars_text, vars_run, vars_title, vars_doc, vars_translate, chunk_args, chunk_start,
                   vars_reconcile, vars_merge, vars_segments>>

NextChunk == ChunkNothing \/ ChunkNext \/ ChunkLast

SpecChunk == InitChunk /\ [][NextChunk]_vars

\* --- Properties of the chunker ------------------------------------------

\* The measured size of a chunk as the tests measure it: per sentence the
\* translation length when the translation is non-empty, else the source length
MeasuredSize(chunk) ==
    SumLen([k \in 1..Len(chunk.french_sentences) |->
              IF chunk.english_sentences[k] # <<>> THEN chunk.english_sentences[k]
              ELSE chunk.french_sentences[k]])

PositiveCap == chunk_args.max_chunk_chars # <<>> /\ chunk_args.max_chunk_chars[1] > 0

\* C3 as stated: with a positive max_chunk_chars, every produced chunk has
\* measured size <= max_chunk_chars.
C3_EveryChunkWithinCap ==
    PositiveCap =>
       \A c \in 1..Len(chunks) : MeasuredSize(chunks[c]) <= chunk_args.max_chunk_chars[1]

\* C3 amended: with a positive max_chunk_chars, every produced chunk that
\* holds more than one sentence has measured size <= max_chunk_chars; a chunk
\* above the cap consists of exactly one sentence.
C3_MultiSentenceChunkWithinCap ==
    PositiveCap =>
       \A c \in 1..Len(chunks) :
          \/ MeasuredSize(chunks[c]) <= chunk_args.max_chunk_chars[1]
          \/ Len(chunks[c].french_sentences) = 1

C3_Witness ==
    /\ pc = "chunked"
    /\ PositiveCap
    /\ \E c \in 1..Len(chunks) :
          /\ Len(chunks[c].french_sentences) >= 2
          /\ MeasuredSize(chunks[c]) = chunk_args.max_chunk_chars[1]
    /\ \E c \in 1..Len(chunks) :
          /\ Len(chunks[c].french_sentences) = 1
          /\ MeasuredSize(chunks[c]) > chunk_args.max_chunk_chars[1]

\* ------------------------------------------------------------------------
\* Prompt segments of one finalized scene (the scene loop of ingest up to
\* the vocabulary and question calls)
\* ------------------------------------------------------------------------

\* safety_floor = max(128, effective_cap // 8)
SafetyFloorMin == 128

SafetyFloorDivisor == 8

\* at most 4 questions are aggregated per scene
MaxQuestions == 4

\* Largest number of sentences of a scene document
MaxSegSentences == 2

\* caps below the safety floor, and the sentences used with them
SmallCaps == {4, 6}

SmallTexts == {<<"a", ".">>, <<"b", "b", " ", "c", "c", ".">>}

\* a cap of twice the safety floor, and the sentences used with it
LargeCap == 2 * SafetyFloorMin

LongSentence == Rep("b", 127) \o <<".">>

LargeTexts == {<<"a", ".">>, LongSentence}

SegSeparators == {<<" ">>, <<"\n", "\n">>}

\* what the translator may have returned for a sentence: nothing, a short
\* text, a text longer than any cap
SegTranslations ==
    {<<>>, <<"x", " ", "y", " ", "z">>, Rep("x", 150) \o <<" ">> \o Rep("y", 150)}

DocsOver(texts_set) ==
    {DocOf(texts, [k \in 1..(Len(texts) - 1) |-> sep]) :
        texts \in UNION {[1..n -> texts_set] : n \in 1..MaxSegSentences},
        sep \in SegSeparators}

SegInputs ==
    {[doc |-> d, cap |-> c] : d \in DocsOver(SmallTexts), c \in SmallCaps}
      \cup {[doc |-> d, cap |-> LargeCap] : d \in DocsOver(LargeTexts)}

\* The mutation of SafetyFloor that has no floor
SafetyFloorOfOne(cap) == 1

SafetyFloor(cap) == PyMax(SafetyFloorMin, cap \div SafetyFloorDivisor)

\* build_prompt_segments with the "if not prompt_segments" fallback of ingest
SegmentsOrFallback(sc, cap) ==
    LET built == build_prompt_segments(sc.sentence_slice, sc.translations, cap)
    IN  IF built = <<>>
        THEN <<[text |-> sc.content, translations |-> sc.translations,
                slices |-> sc.sentence_slice]>>
        ELSE built

\* any(combined_len(segment) > settings.max_prompt_chars for segment in ...)
AnyOverCap(segments, cap) ==
    \E k \in 1..Len(segments) : combined_len(segments[k]) > cap

\* An option of a question payload; is_correct is the flag as the option
\* loop reads it
Option(text, is_correct) == [text |-> text, is_correct |-> is_correct]

Right == Option(<<"o">>, TRUE)

Wrong == Option(<<"o">>, FALSE)

Blank == Option(<<" ">>, FALSE)

Question(prompt, options) == [prompt |-> prompt, options |-> options]

\* Four options, one correct
ValidQuestion == Question(<<"q">>, <<Wrong, Right, Wrong, Wrong>>)

\* Five options, the first and the last correct
FiveOptions == Question(<<"q">>, <<Right, Wrong, Wrong, Wrong, Right>>)

\* Three options
ThreeOptions == Question(<<"q">>, <<Right, Wrong, Wrong>>)

\* Four options, two correct
TwoCorrect == Question(<<"q">>, <<Right, Right, Wrong, Wrong>>)

\* Four options, one with a blank text
BlankOption == Question(<<"q">>, <<Right, Blank, Wrong, Wrong>>)

\* A blank prompt
NoPrompt == Question(<<" ">>, <<Right, Wrong, Wrong, Wrong>>)

\* What generate_questions can return for one segment
QuestionPayloads ==
    {<<>>, <<ValidQuestion>>, <<FiveOptions, ThreeOptions>>,
     <<TwoCorrect, BlankOption, NoPrompt, ValidQuestion, ValidQuestion>>}

InitSegments ==
    /\ pc = "segments"
    /\ \E input \in SegInputs :
          /\ max_prompt_chars = input.cap
          /\ book_text = input.doc
    /\ max_translation_sentences = 0
    /\ max_segment_tokens = 0
    /\ sentence_slices = build_sentence_slices(book_text, max_prompt_chars)
    /\ french_sentences = SliceTexts(sentence_slices)
    /\ english_sentences \in [1..Len(french_sentences) -> SegTranslations]
    /\ scene = [sentence_slice |-> sentence_slices,
                translations |-> english_sentences,
                content |-> Strip(PySlice(book_text, sentence_slices[1].start,
                                          sentence_slices[Len(sentence_slices)].end))]
    /\ effective_cap = 0
    /\ prompt_segments = <<>>
    /\ vocab_prompts = <<>>
    /\ question_prompts = <<>>
    /\ aggregated_questions = <<>>
    /\ persisted_questions = <<>>
    /\ TranslateIdle /\ ChunkIdle /\ ReconcileIdle /\ MergeIdle
    /\ TextIdle /\ RunIdle /\ TitleIdle
    /\ StreamIdle

\* effective_cap = max(settings.max_prompt_chars, 1) and the first grouping
BuildSegments ==
    /\ pc = "segments"
    /\ effective_cap' = PyMax(max_prompt_chars, 1)
    /\ prompt_segments' = SegmentsOrFallback(scene, PyMax(max_prompt_chars, 1))
    /\ pc' = "rebalance"
    /\ UNCHANGED <<vars_stream, vars_settings, vars_text, vars_run, vars_title, vars_doc, vars_translate, vars_chunk, vars_reconcile,
                   vars_merge, scene, vocab_prompts, question_prompts,
                   aggregated_questions, persisted_questions>>

\* One iteration of the while loop: halve the cap and group again
Halve ==
    /\ pc = "rebalance"
    /\ AnyOverCap(prompt_segments, max_prompt_chars)
    /\ effective_cap > SafetyFloor(PyMax(max_prompt_chars, 1))
    /\ LET cap == PyMax(effective_cap \div 2, SafetyFloor(PyMax(max_prompt_chars, 1)))
       IN  /\ effective_cap' = cap
           /\ prompt_segments' = SegmentsOrFallback(scene, cap)
    /\ UNCHANGED <<vars_stream, pc, vars_settings, vars_text, vars_run, vars_title, vars_doc, vars_translate, vars_chunk,
                   vars_reconcile, vars_merge, scene, vocab_prompts, question_prompts,
                   aggregated_questions, persisted_questions>>

\* The while loop ends
RebalanceDone ==
    /\ pc = "rebalance"
    /\ ~(/\ AnyOverCap(prompt_segments, max_prompt_chars)
         /\ effective_cap > SafetyFloor(PyMax(max_prompt_chars, 1)))
    /\ pc' = "vocabulary"
    /\ UNCHANGED <<vars_stream, vars_settings, vars_text, vars_run, vars_title, vars_doc, vars_translate, vars_chunk, vars_reconcile,
                   vars_merge, vars_segments>>

\* extract_vocabulary(segment_text, segment_translations) for the next segment
ExtractVocabulary ==
    /\ pc = "vocabulary"
    /\ Len(vocab_prompts) < Len(prompt_segments)
    /\ vocab_prompts' = Append(vocab_prompts, prompt_segments[Len(vocab_prompts) + 1])
    /\ UNCHANGED <<vars_stream, pc, vars_settings, vars_text, vars_run, vars_title, vars_doc, vars_translate, vars_chunk,
                   vars_reconcile, vars_merge, scene, effective_cap, prompt_segments,
                   question_prompts, aggregated_questions, persisted_questions>>

VocabularyDone ==
    /\ pc = "vocabulary"
    /\ Len(vocab_prompts) = Len(prompt_segments)
    /\ pc' = "questions"
    /\ UNCHANGED <<vars_stream, vars_settings, vars_text, vars_run, vars_title, vars_doc, vars_translate, vars_chunk, vars_reconcile,
                   vars_merge, vars_segments>>

\* generate_questions(segment_text) for the next segment; the questions of
\* the payload are aggregated up to 4
GenerateQuestions ==
    /\ pc = "questions"
    /\ Len(question_prompts) < Len(prompt_segments)
    /\ Len(aggregated_questions) < MaxQuestions
    /\ question_prompts' =
          Append(question_prompts, prompt_segments[Len(question_prompts) + 1].text)
    /\ \E question_payload \in QuestionPayloads :
          aggregated_questions' =
              FirstN(aggregated_questions \o question_payload, MaxQuestions)
    /\ UNCHANGED <<vars_stream, pc, vars_settings, vars_text, vars_run, vars_title, vars_doc, vars_translate, vars_chunk,
                   vars_reconcile, vars_merge, scene, effective_cap, prompt_segments,
                   vocab_prompts, persisted_questions>>

\* The aggregation loop is over
QuestionsDone ==
    /\ pc = "questions"
    /\ \/ Len(question_prompts) = Len(prompt_segments)
       \/ Len(aggregated_questions) >= MaxQuestions
    /\ pc' = "persist"
    /\ UNCHANGED <<vars_stream, vars_settings, vars_text, vars_run, vars_title, vars_doc, vars_translate, vars_chunk, vars_reconcile,
                   vars_merge, vars_segments>>

\* "for question_data in aggregated_questions[:4]": Question and
\* QuestionOption rows are added for the payloads that pass
PersistQuestions ==
    /\ pc = "persist"
    /\ persisted_questions' = PersistedQuestions(aggregated_questions)
    /\ pc' = "scene_done"
    /\ UNCHANGED <<vars_stream, vars_settings, vars_text, vars_run, vars_title, vars_doc, vars_translate, vars_chunk, vars_reconcile,
                   vars_merge, scene, effective_cap, prompt_segments,
                   vocab_prompts, question_prompts, aggregated_questions>>

NextSegments ==
    \/ BuildSegments \/ Halve \/ RebalanceDone
    \/ ExtractVocabulary \/ VocabularyDone
    \/ GenerateQuestions \/ QuestionsDone \/ PersistQuestions

SpecSegments == InitSegments /\ [][NextSegments]_vars

\* --- Properties of the prompt segments ----------------------------------

\* The segments have reached their final grouping
Rebalanced == pc \in {"vocabulary", "questions", "persist", "scene_done"}

\* The scene's source text plus its translations, measured like a segment
SceneCombinedLen ==
    Len(scene.content) + Len(Join(" ", FilterNonEmpty(scene.translations)))

\* The scene's sentences joined by newlines, as one segment would hold them
SceneJoinedLen == Len(Join("\n", SliceTexts(scene.sentence_slice)))

HandedWithinCap ==
    /\ \A k \in 1..Len(vocab_prompts) : combined_len(vocab_prompts[k]) <= max_prompt_chars
    /\ \A k \in 1..Len(question_prompts) : Len(question_prompts[k]) <= max_prompt_chars

\* C9 as stated: every prompt segment handed to extract_vocabulary and
\* generate_questions has combined length <= max_prompt_chars, and a scene
\* whose combined text exceeds the cap is split into at least 2 segments.
C9_EverySegmentWithinCap ==
    /\ HandedWithinCap
    /\ (Rebalanced /\ SceneCombinedLen > max_prompt_chars) => Len(prompt_segments) >= 2

\* C9 amended: when max_prompt_chars is at least twice the safety floor
\* (>= 256), every prompt segment handed to extract_vocabulary and
\* generate_questions has combined length <= max_prompt_chars, and a scene
\* whose source sentences joined by newlines exceed the cap is split into at
\* least 2 segments.
C9_SegmentsWithinLargeCap ==
    max_prompt_chars >= 2 * SafetyFloorMin =>
       /\ HandedWithinCap
       /\ (Rebalanced /\ SceneJoinedLen > max_prompt_chars) => Len(prompt_segments) >= 2

\* A scene of two long sentences was regrouped with a halved cap and handed
\* to both calls in two segments
C9_Witness ==
    /\ pc = "scene_done"
    /\ max_prompt_chars >= 2 * SafetyFloorMin
    /\ effective_cap < max_prompt_chars
    /\ SceneJoinedLen > max_prompt_chars
    /\ Len(vocab_prompts) >= 2
    /\ Len(question_prompts) >= 2

\* C10: the prompt segments partition the scene's sentence slices in order:
\* the slices of the segments, concatenated in segment order, are the scene's
\* slice sequence; no segment is empty, each segment's text is its sentences
\* joined by newlines and it carries one translation per sentence.  This
\* holds for the first grouping and after every regrouping with a halved cap.
C10_SegmentsPartitionScene ==
    pc \in {"rebalance", "vocabulary", "questions", "persist", "scene_done"} =>
       /\ Concat([k \in 1..Len(prompt_segments) |-> prompt_segments[k].slices])
             = scene.sentence_slice
       /\ \A k \in 1..Len(prompt_segments) :
             /\ prompt_segments[k].slices # <<>>
             /\ prompt_segments[k].text
                   = Join("\n", SliceTexts(prompt_segments[k].slices))
             /\ Len(prompt_segments[k].translations) = Len(prompt_segments[k].slices)

\* A scene of several sentences was regrouped with a halved cap into
\* several segments
C10_Witness ==
    /\ pc = "vocabulary"
    /\ effective_cap < max_prompt_chars
    /\ Len(prompt_segments) >= 2
    /\ Len(scene.sentence_slice) >= 2

\* --- Properties of the persisted questions -------------------------------

\* The payload at position k of the aggregated list was persisted
Persisted(k) ==
    \E j \in 1..Len(persisted_questions) : persisted_questions[j].source = k

\* C15: at most 4 questions are persisted for the scene, and a question is
\* persisted only if its payload has exactly 4 options of which exactly one
\* is marked correct; payloads with any other number of options or of
\* correct options are discarded.
C15_OnlyFourOptionPayloadsPersisted ==
    pc = "scene_done" =>
        /\ Len(persisted_questions) <= MaxQuestions
        /\ \A k \in 1..Len(aggregated_questions) :
              Persisted(k) =>
                  /\ Len(aggregated_questions[k].options) = OptionsPerQuestion
                  /\ CorrectCount(aggregated_questions[k].options) = 1

\* ------------------------------------------------------------------------
\* ingest: the chunk loop (classifier calls and boundary reconciliation)
\* and the scene merger
\* ------------------------------------------------------------------------

\* Largest number of sentences of an ingested document
MaxSentences == 3

\* Largest number of proposals in one classifier response
MaxProposals == 2

\* max_prompt_chars and whether the translator returned translations: a cap
\* of 4 cuts the document into chunks of one sentence (translated) or two
\* (untranslated), the default cap keeps it in one chunk
IngestSettings ==
    {[cap |-> 4, translated |-> TRUE], [cap |-> 4, translated |-> FALSE],
     [cap |-> 100, translated |-> TRUE]}

IngestTexts == {<<"a", ".">>, <<"b", ".">>}

IngestSeparators == {<<" ">>, <<"\n", "\n">>}

\* A paragraph of two sentences followed by the same two sentences as
\* paragraphs of their own
RepeatingDoc ==
    <<"a", ".", " ", "a", ".", "\n", "\n", "a", ".", "\n", "\n", "a", ".">>

\* The documents: blank, the repeating one, or up to MaxSentences sentences.
\* The two texts are interchangeable, so the first sentence is fixed.
IngestDocs ==
    {<<" ">>, RepeatingDoc} \cup
    UNION {{DocOf(texts, seps) : texts \in {t \in [1..n -> IngestTexts] :
                                              t[1] = <<"a", ".">>},
                                 seps \in [1..(n - 1) -> IngestSeparators]} :
             n \in 1..MaxSentences}

\* An index of a proposal: <<>> when missing or unparseable, <<n>> for n
IndexValues == {<<>>} \cup {<<n>> : n \in 0..(MaxSentences + 1)}

Summaries == {<<>>, <<" ", "s">>}

Proposals ==
    [start_sentence_index : IndexValues, end_sentence_index : IndexValues,
     continues_from_previous : BOOLEAN, summary : Summaries]

\* A fallback that makes one chunk even when there is no sentence
IngestChunksAlways(french, english, max_tokens, max_chars) ==
    <<SentenceChunk(0, 0, Len(french), english, french,
                    SumLen([k \in 1..Len(french) |->
                              IF english[k] # <<>> THEN english[k]
                              ELSE french[k]]))>>

\* chunk_sentence_pairs as ingest calls it, with the single-chunk fallback
IngestChunks(french, english, max_tokens, max_chars) ==
    LET found == chunk_sentence_pairs(french, english, max_tokens,
                                      OverlapNum, OverlapDen, <<max_chars>>)
    IN  IF found = <<>> /\ french # <<>>
        THEN <<SentenceChunk(0, 0, Len(french), english, french,
                             SumLen([k \in 1..Len(french) |->
                                       IF english[k] # <<>> THEN english[k]
                                       ELSE french[k]]))>>
        ELSE found

\* The first while loop: move global_start back to the start of its paragraph.
\* Indices are the 0-based indices of the code.
RECURSIVE SnapStart(_, _)
SnapStart(slices, global_start) ==
    IF global_start > 0
         /\ slices[global_start].paragraph_index = slices[global_start + 1].paragraph_index
    THEN SnapStart(slices, global_start - 1)
    ELSE global_start

\* A reconciler without the second while loop: global_end stays where the
\* proposal put it
UnsnappedEnd(slices, global_end) == global_end

\* The second while loop: move global_end forward to the end of its paragraph
RECURSIVE SnapEnd(_, _)
SnapEnd(slices, global_end) ==
    IF global_end + 1 < Len(slices)
         /\ slices[global_end + 2].paragraph_index = slices[global_end + 1].paragraph_index
    THEN SnapEnd(slices, global_end + 1)
    ELSE global_end

\* A reconciler without the high-water-mark test: global_start is kept
NotAdvancedStart(global_start, last_end) == global_start

\* global_start after the high-water-mark test
AdvancedStart(global_start, last_end) ==
    IF global_start <= last_end THEN last_end + 1 ELSE global_start

\* book_text[content_start:content_end].strip() for a range of slices
ContentOf(text, slices, first, last) ==
    Strip(PySlice(text, slices[first + 1].start, slices[last + 1].end))

\* A range test that does not look at the chunk's sentence count
OutOfRangeUnbounded(start_offset, end_offset, sentence_count) ==
    start_offset < 0 \/ end_offset < start_offset

\* "start_offset < 0 or end_offset < start_offset or end_offset >= sentence_count"
OutOfRange(start_offset, end_offset, sentence_count) ==
    start_offset < 0 \/ end_offset < start_offset \/ end_offset >= sentence_count

\* The body of "for scene_data in chunk_scenes" for one proposal:
\* [accepted |-> FALSE] when the proposal is discarded, otherwise the
\* candidate appended to raw_scenes.  `advanced` is a history field: the start
\* was moved past the high-water mark.
Reconcile(p, chunk, text, slices, last_end) ==
    IF p.start_sentence_index = <<>> \/ p.end_sentence_index = <<>>
    THEN [accepted |-> FALSE]
    ELSE
      LET sentence_count == Len(chunk.english_sentences)
          start_offset == p.start_sentence_index[1] - 1
          end_offset == p.end_sentence_index[1] - 1
          global_start == chunk.sentence_start + start_offset
          global_end == chunk.sentence_start + end_offset
      IN  IF OutOfRange(start_offset, end_offset, sentence_count)
          THEN [accepted |-> FALSE]
          ELSE IF global_start < 0 \/ global_end >= Len(slices)
          THEN [accepted |-> FALSE]
          ELSE
            LET snapped_start == SnapStart(slices, global_start)
                snapped_end == SnapEnd(slices, global_end)
                final_start == AdvancedStart(snapped_start, last_end)
            IN  IF final_start > snapped_end THEN [accepted |-> FALSE]
                ELSE IF ContentOf(text, slices, final_start, snapped_end) = <<>>
                THEN [accepted |-> FALSE]
                ELSE [accepted |-> TRUE,
                      summary |-> p.summary,
                      content |-> ContentOf(text, slices, final_start, snapped_end),
                      sentence_start |-> final_start,
                      sentence_end |-> snapped_end,
                      continues_from_previous |-> p.continues_from_previous,
                      advanced |-> final_start # snapped_start]

\* "if progress_callback: progress_callback(0, len(chunks))"
FirstProgress(callback, found) ==
    IF callback THEN <<<<0, Len(found)>>>> ELSE <<>>

\* A report that counts the chunks before this one rather than through it
ChunkProgressFromZero(callback, calls, chunk, found) ==
    IF callback
    THEN Append(calls, <<PyMin(chunk.index, Len(found)), PyMax(Len(found), 1)>>)
    ELSE calls

\* "if progress_callback: progress_callback(processed, total)" after a chunk
ChunkProgress(callback, calls, chunk, found) ==
    IF callback
    THEN Append(calls, <<PyMin(chunk.index + 1, Len(found)), PyMax(Len(found), 1)>>)
    ELSE calls

\* A call that numbers the chunks from 1
ClassifierCallOneBased(chunk, found, summary) ==
    [chunk_index |-> chunk.index + 1, total_chunks |-> Len(found),
     previous_scene_summary |-> summary]

\* The arguments of segment_chunk that identify the call
ClassifierCall(chunk, found, summary) ==
    [chunk_index |-> chunk.index, total_chunks |-> Len(found),
     previous_scene_summary |-> summary]

\* ingest from the chunking on, called with a progress callback
InitIngest ==
    /\ max_translation_sentences = 1
    /\ max_segment_tokens = DefaultSegmentTokens
    /\ book_text \in IngestDocs
    /\ \E setting \in IngestSettings :
          /\ max_prompt_chars = setting.cap
          /\ sentence_slices = build_sentence_slices(book_text, max_prompt_chars)
          /\ french_sentences = SliceTexts(sentence_slices)
          /\ english_sentences =
                [k \in 1..Len(french_sentences) |->
                   IF setting.translated THEN Translation(french_sentences[k])
                   ELSE <<>>]
    /\ chunk_args = [max_tokens |-> max_segment_tokens, num |-> OverlapNum,
                     den |-> OverlapDen, max_chunk_chars |-> <<max_prompt_chars>>]
    /\ chunk_start = 0
    /\ chunks = IngestChunks(french_sentences, english_sentences,
                             max_segment_tokens, max_prompt_chars)
    /\ pc = IF chunks = <<>> THEN "merge" ELSE "segment"
    /\ has_callback = TRUE
    /\ progress_calls = FirstProgress(has_callback, chunks)
    /\ classifier_calls = <<>>
    /\ scene_pos = 0 /\ created_scenes = 0 /\ committed = FALSE
    /\ TranslateIdle /\ ReconcileIdle /\ MergeIdle /\ SegmentsIdle
    /\ TextIdle /\ TitleIdle
    /\ StreamIdle

\* self._gemini.segment_chunk(...) for the chunk at chunk_pos: the response
\* is consumed proposal by proposal
SegmentChunk ==
    /\ pc = "segment"
    /\ chunk_pos < Len(chunks)
    /\ classifier_calls' =
          Append(classifier_calls,
                 ClassifierCall(chunks[chunk_pos + 1], chunks, last_scene_summary))
    /\ proposals_seen' = 0
    /\ pc' = "reconcile"
    /\ UNCHANGED <<vars_stream, vars_settings, vars_text, vars_title, vars_doc, vars_translate,
                   vars_chunk, chunk_pos, has_callback, progress_calls, scene_pos,
                   created_scenes, committed,
                   raw_scenes, last_scene_end_idx, last_scene_summary,
                   vars_merge, vars_segments>>

\* What the loop body makes of each proposal the classifier can return for
\* the chunk at chunk_pos
Outcomes ==
    {Reconcile(p, chunks[chunk_pos + 1], book_text, sentence_slices,
               last_scene_end_idx) : p \in Proposals}

\* The next proposal of the response is discarded ("continue")
ProposalDiscarded ==
    /\ pc = "reconcile"
    /\ proposals_seen < MaxProposals
    /\ {r \in Outcomes : ~r.accepted} # {}
    /\ proposals_seen' = proposals_seen + 1
    /\ UNCHANGED <<vars_stream, pc, vars_settings, vars_text, vars_run, vars_title, vars_doc, vars_translate, vars_chunk, chunk_pos,
                   raw_scenes, last_scene_end_idx, last_scene_summary,
                   vars_merge, vars_segments>>

\* A memory that takes every accepted candidate's summary, blank or not
LatestSummary(last_summary, summary_value) == Strip(summary_value)

\* "if isinstance(summary_value, str) and summary_value.strip():
\*      last_scene_summary = summary_value.strip()"
RememberedSummary(last_summary, summary_value) ==
    IF Strip(summary_value) # <<>> THEN Strip(summary_value) ELSE last_summary

\* A mark that is never moved
HighWaterUnmoved(last_end, global_end) == last_end

\* "last_scene_end_idx = max(last_scene_end_idx, global_end)"
HighWater(last_end, global_end) == PyMax(last_end, global_end)

\* The next proposal of the response is accepted as a candidate
ProposalAccepted ==
    /\ pc = "reconcile"
    /\ proposals_seen < MaxProposals
    /\ \E r \in {o \in Outcomes : o.accepted} :
          /\ raw_scenes' = Append(raw_scenes, r)
          /\ last_scene_summary' = RememberedSummary(last_scene_summary, r.summary)
          /\ last_scene_end_idx' = HighWater(last_scene_end_idx, r.sentence_end)
    /\ proposals_seen' = proposals_seen + 1
    /\ UNCHANGED <<vars_stream, pc, vars_settings, vars_text, vars_run, vars_title, vars_doc, vars_translate, vars_chunk, chunk_pos,
                   vars_merge, vars_segments>>

\* The response is exhausted: progress is reported and the next chunk follows
ChunkDone ==
    /\ pc = "reconcile"
    /\ chunk_pos' = chunk_pos + 1
    /\ progress_calls' =
          ChunkProgress(has_callback, progress_calls, chunks[chunk_pos + 1], chunks)
    /\ pc' = IF chunk_pos + 1 < Len(chunks) THEN "segment" ELSE "merge"
    /\ UNCHANGED <<vars_stream, vars_settings, vars_text, vars_title, vars_doc, vars_translate,
                   vars_chunk, has_callback, classifier_calls, scene_pos,
                   created_scenes, committed, proposals_seen,
                   raw_scenes, last_scene_end_idx, last_scene_summary,
                   vars_merge, vars_segments>>

\* A merger without the membership test
NeverDuplicate(normalized, seen) == FALSE

\* "normalized in seen_normalized"
IsDuplicate(normalized, seen) == normalized \in seen

\* last_scene["summary"] after a continuation with summary new_summary
MergedSummary(last_summary, new_summary) ==
    IF Strip(new_summary) # <<>>
    THEN IF Strip(last_summary) # <<>>
         THEN Strip(last_summary) \o <<" ">> \o Strip(new_summary)
         ELSE Strip(new_summary)
    ELSE last_summary

\* A merger that re-slices the content but keeps the end of the last scene
MergedKeepingEnd(last, cand, text, slices) ==
    LET combined_start == PyMin(last.sentence_start, cand.sentence_start)
        combined == ContentOf(text, slices, combined_start, last.sentence_end)
    IN  [summary |-> MergedSummary(last.summary, cand.summary),
         content |-> combined,
         sentence_start |-> combined_start,
         sentence_end |-> last.sentence_end,
         normalized |-> normalize(combined)]

\* The last accepted scene after candidate cand has been merged into it
MergedInto(last, cand, text, slices) ==
    LET combined_start == PyMin(last.sentence_start, cand.sentence_start)
        combined_end == PyMax(last.sentence_end, cand.sentence_end)
        combined == ContentOf(text, slices, combined_start, combined_end)
    IN  [summary |-> MergedSummary(last.summary, cand.summary),
         content |-> combined,
         sentence_start |-> combined_start,
         sentence_end |-> combined_end,
         normalized |-> normalize(combined)]

\* The mutation of NewScene that records the content as it is written
NewSceneAsWritten(cand) ==
    [summary |-> cand.summary, content |-> cand.content,
     sentence_start |-> cand.sentence_start, sentence_end |-> cand.sentence_end,
     normalized |-> cand.content]

\* The scene appended for a candidate that opens a new scene
NewScene(cand) ==
    [summary |-> cand.summary, content |-> cand.content,
     sentence_start |-> cand.sentence_start, sentence_end |-> cand.sentence_end,
     normalized |-> normalize(cand.content)]

\* The candidate the merger looks at next
Candidate == raw_scenes[merge_pos + 1]

\* The mutation of continues_prev that never sees the flag
continues_prev_unset(cand) == FALSE

\* continues_prev = bool(scene_data.get("continues_from_previous"))
continues_prev(cand) == cand.continues_from_previous

\* "if merged_scenes and continues_prev": merge into the last accepted scene
MergeContinuation ==
    /\ pc = "merge"
    /\ merge_pos < Len(raw_scenes)
    /\ merged_scenes # <<>> /\ continues_prev(Candidate)
    /\ LET last == merged_scenes[Len(merged_scenes)]
           merged == MergedInto(last, Candidate, book_text, sentence_slices)
       IN  /\ merged_scenes' = [merged_scenes EXCEPT ![Len(merged_scenes)] = merged]
           /\ seen_normalized' = (seen_normalized \ {last.normalized})
                                    \cup {merged.normalized}
    /\ merge_log' = Append(merge_log, "merged")
    /\ merge_pos' = merge_pos + 1
    /\ UNCHANGED <<vars_stream, pc, vars_settings, vars_text, vars_run, vars_title, vars_doc, vars_translate, vars_chunk,
                   vars_reconcile, vars_segments>>

\* "if normalized in seen_normalized: continue"
MergeDuplicate ==
    /\ pc = "merge"
    /\ merge_pos < Len(raw_scenes)
    /\ ~(merged_scenes # <<>> /\ continues_prev(Candidate))
    /\ IsDuplicate(normalize(Candidate.content), seen_normalized)
    /\ merge_log' = Append(merge_log, "duplicate")
    /\ merge_pos' = merge_pos + 1
    /\ UNCHANGED <<vars_stream, pc, vars_settings, vars_text, vars_run, vars_title, vars_doc, vars_translate, vars_chunk,
                   vars_reconcile, merged_scenes, seen_normalized, vars_segments>>

\* The candidate opens a new accepted scene
MergeAppend ==
    /\ pc = "merge"
    /\ merge_pos < Len(raw_scenes)
    /\ ~(merged_scenes # <<>> /\ continues_prev(Candidate))
    /\ ~IsDuplicate(normalize(Candidate.content), seen_normalized)
    /\ seen_normalized' = seen_normalized \cup {normalize(Candidate.content)}
    /\ merged_scenes' = Append(merged_scenes, NewScene(Candidate))
    /\ merge_log' = Append(merge_log, "appended")
    /\ merge_pos' = merge_pos + 1
    /\ UNCHANGED <<vars_stream, pc, vars_settings, vars_text, vars_run, vars_title, vars_doc, vars_translate, vars_chunk,
                   vars_reconcile, vars_segments>>

\* Every candidate has been looked at
MergeDone ==
    /\ pc = "merge"
    /\ merge_pos = Len(raw_scenes)
    /\ pc' = "merged"
    /\ UNCHANGED <<vars_stream, vars_settings, vars_text, vars_run, vars_title, vars_doc, vars_translate, vars_chunk, vars_reconcile,
                   vars_merge, vars_segments>>

Init == InitIngest

Next ==
    \/ SegmentChunk \/ ProposalDiscarded \/ ProposalAccepted \/ ChunkDone
    \/ MergeContinuation \/ MergeDuplicate \/ MergeAppend \/ MergeDone

Spec == Init /\ [][Next]_vars

\* ------------------------------------------------------------------------
\* ingest as a whole: from the extracted text to session.commit()
\* ------------------------------------------------------------------------

\* Extracted texts: empty, blank, one and two paragraphs, a heading
RunTexts ==
    {<<>>, <<" ">>, <<"\n", " ", "\n">>,
     <<"a", ".">>,
     <<"a", ".", "\n", "\n", "b", ".">>,
     <<"a", ".", "\n", "\n", "a", ".">>,
     <<"I", "\n", "a", ".", " ", "b", ".">>}

RunCaps == {3, 100}

\* Every text with every cap, and two sentences that together are longer
\* than twice the safety floor
RunInputs ==
    [text : RunTexts, cap : RunCaps]
      \cup {[text |-> LongSentence \o <<" ">> \o LongSentence, cap |-> LargeCap]}

\* The title the classifier gave to the candidate that opened a scene; the
\* reconciler and the merger pass it on untouched
SceneTitles == {<<>>, <<"T">>}

InitRun ==
    /\ pc = "start"
    /\ \E input \in RunInputs :
          /\ raw_text = input.text
          /\ max_prompt_chars = input.cap
    /\ stripped_headings = <<>>
    /\ max_translation_sentences = 2
    /\ max_segment_tokens = DefaultSegmentTokens
    /\ has_callback \in BOOLEAN
    /\ progress_calls = <<>>
    /\ classifier_calls = <<>>
    /\ scene_pos = 0 /\ created_scenes = 0 /\ committed = FALSE
    /\ book_text = <<>> /\ sentence_slices = <<>>
    /\ french_sentences = <<>> /\ english_sentences = <<>>
    /\ TranslateIdle /\ ChunkIdle /\ ReconcileIdle /\ MergeIdle /\ SegmentsIdle
    /\ TitleIdle
    /\ StreamIdle

\* chunk_sentence_pairs with the single-chunk fallback, then the first
\* progress report
ChunkSentences ==
    /\ pc = "translated"
    /\ chunk_args' = [max_tokens |-> max_segment_tokens, num |-> OverlapNum,
                      den |-> OverlapDen, max_chunk_chars |-> <<max_prompt_chars>>]
    /\ chunks' = IngestChunks(french_sentences, english_sentences,
                              max_segment_tokens, max_prompt_chars)
    /\ progress_calls' = FirstProgress(has_callback, chunks')
    /\ pc' = IF chunks' = <<>> THEN "merge" ELSE "segment"
    /\ UNCHANGED <<vars_stream, vars_settings, vars_doc, vars_translate, chunk_start,
                   vars_reconcile, vars_merge, vars_segments, vars_text,
                   has_callback, classifier_calls, scene_pos, created_scenes,
                   committed, vars_title>>

\* The head of one iteration of the scene loop: sentences and translations
\* of the scene, its title, and the Scene row
NextScene ==
    /\ pc = "merged"
    /\ scene_pos < Len(merged_scenes)
    /\ LET scene_data == merged_scenes[scene_pos + 1]
           sentence_slice == PySlice(sentence_slices, scene_data.sentence_start,
                                     scene_data.sentence_end + 1)
           translations == PySlice(english_sentences, scene_data.sentence_start,
                                   scene_data.sentence_end + 1)
           heading_text == resolve_heading(
                               heading_sentence_map(stripped_headings, sentence_slices),
                               scene_data.sentence_start, <<>>)
       IN  /\ scene' = [sentence_slice |-> sentence_slice,
                        translations |-> translations,
                        content |-> Strip(scene_data.content)]
           /\ \E existing_title \in SceneTitles :
                 title_args' = [existing_title |-> existing_title,
                                heading_text |-> heading_text,
                                default_sentence |-> sentence_slice[1].text,
                                scene_index |-> scene_pos + 1]
           /\ scene_title' = generate_scene_title(title_args'.existing_title,
                                                  title_args'.heading_text,
                                                  title_args'.default_sentence,
                                                  title_args'.scene_index)
    /\ created_scenes' = created_scenes + 1
    /\ effective_cap' = 0
    /\ prompt_segments' = <<>>
    /\ vocab_prompts' = <<>>
    /\ question_prompts' = <<>>
    /\ aggregated_questions' = <<>>
    /\ persisted_questions' = <<>>
    /\ pc' = "segments"
    /\ UNCHANGED <<vars_stream, vars_settings, vars_doc, vars_translate, vars_chunk,
                   vars_reconcile, vars_merge, vars_text, has_callback,
                   progress_calls, classifier_calls, scene_pos, committed>>

\* The end of one iteration of the scene loop
SceneDone ==
    /\ pc = "scene_done"
    /\ scene_pos' = scene_pos + 1
    /\ pc' = "merged"
    /\ UNCHANGED <<vars_stream, vars_settings, vars_doc, vars_translate, vars_chunk,
                   vars_reconcile, vars_merge, vars_segments, vars_text,
                   has_callback, progress_calls, classifier_calls,
                   created_scenes, committed, vars_title>>

\* A commit as soon as one scene has been processed
ReadyAfterOneScene(pos, scenes) == pos >= PyMin(1, Len(scenes))

\* The scene loop has run through merged_scenes
ReadyToCommit(pos, scenes) == pos = Len(scenes)

\* self._session.commit() and the return of IngestionResult
Commit ==
    /\ pc = "merged"
    /\ ReadyToCommit(scene_pos, merged_scenes)
    /\ committed' = TRUE
    /\ pc' = "returned"
    /\ UNCHANGED <<vars_stream, vars_settings, vars_doc, vars_translate, vars_chunk,
                   vars_reconcile, vars_merge, vars_segments, vars_text,
                   has_callback, progress_calls, classifier_calls, scene_pos,
                   created_scenes, vars_title>>

\* The exception of a capability call leaves ingest: nothing in ingest
\* catches it
Raised ==
    /\ pc' = "raised"
    /\ UNCHANGED <<vars_stream, vars_settings, vars_doc, vars_translate, vars_chunk,
                   vars_reconcile, vars_merge, vars_segments, vars_text,
                   vars_run, vars_title>>

\* translate_sentences(batch) raises
TranslateRaises ==
    /\ pc = "translate"
    /\ batch # <<>>
    /\ \/ /\ tr_index < Len(french_sentences)
          /\ ShouldFlush(batch, char_count, TrLength(french_sentences[tr_index + 1]),
                         max_prompt_chars, PyMax(max_translation_sentences, 1))
       \/ tr_index = Len(french_sentences)
    /\ Raised

\* segment_chunk(...) raises
SegmentChunkRaises ==
    /\ pc = "segment"
    /\ chunk_pos < Len(chunks)
    /\ Raised

\* extract_vocabulary(...) raises
ExtractVocabularyRaises ==
    /\ pc = "vocabulary"
    /\ Len(vocab_prompts) < Len(prompt_segments)
    /\ Raised

\* generate_questions(...) raises
GenerateQuestionsRaises ==
    /\ pc = "questions"
    /\ Len(question_prompts) < Len(prompt_segments)
    /\ Len(aggregated_questions) < MaxQuestions
    /\ Raised

NextRun ==
    \/ StripHeadings \/ BuildSlices
    \/ TranslateNothing \/ BatchAppend \/ BatchFlush \/ BatchFinal
    \/ ChunkSentences
    \/ SegmentChunk \/ ProposalDiscarded \/ ProposalAccepted \/ ChunkDone
    \/ MergeContinuation \/ MergeDuplicate \/ MergeAppend \/ MergeDone
    \/ NextScene
    \/ BuildSegments \/ Halve \/ RebalanceDone
    \/ ExtractVocabulary \/ VocabularyDone
    \/ GenerateQuestions \/ QuestionsDone \/ PersistQuestions
    \/ SceneDone \/ Commit
    \/ TranslateRaises \/ SegmentChunkRaises
    \/ ExtractVocabularyRaises \/ GenerateQuestionsRaises

SpecRun == InitRun /\ [][NextRun]_vars

\* ------------------------------------------------------------------------
\* Properties of reconciliation and merging
\* ------------------------------------------------------------------------

\* Consecutive scenes of a list do not overlap and keep their order
StrictlyOrdered(scenes) ==
    \A i \in 1..(Len(scenes) - 1) :
        scenes[i + 1].sentence_start > scenes[i].sentence_end

\* C1: the accepted candidates (raw_scenes) and the merged scene list are
\* strictly ordered without overlap: for every two consecutive scenes A then
\* B, B.sentence_start > A.sentence_end.
C1_ScenesStrictlyOrdered ==
    /\ StrictlyOrdered(raw_scenes)
    /\ StrictlyOrdered(merged_scenes)

\* Two candidates were accepted, the second after its start was advanced past
\* the high-water mark, and both survive the merger
C1_Witness ==
    /\ pc = "merged"
    /\ Len(merged_scenes) >= 2
    /\ \E i \in 2..Len(raw_scenes) : raw_scenes[i].advanced

\* The scene starts at the first sentence of a paragraph and ends at the last
\* sentence of a paragraph
CoversWholeParagraphs(s) ==
    /\ \/ s.sentence_start = 0
       \/ sentence_slices[s.sentence_start + 1].paragraph_index
             # sentence_slices[s.sentence_start].paragraph_index
    /\ \/ s.sentence_end = Len(sentence_slices) - 1
       \/ sentence_slices[s.sentence_end + 1].paragraph_index
             # sentence_slices[s.sentence_end + 2].paragraph_index

\* C2: every accepted scene covers whole paragraphs, also after its start has
\* been advanced past the high-water mark: its sentence_start is sentence 0 or
\* has a paragraph_index different from the sentence before it, and its
\* sentence_end is the last sentence or has a paragraph_index different from
\* the sentence after it.
C2_ScenesCoverWholeParagraphs ==
    /\ \A i \in 1..Len(raw_scenes) : CoversWholeParagraphs(raw_scenes[i])
    /\ \A i \in 1..Len(merged_scenes) : CoversWholeParagraphs(merged_scenes[i])

\* A candidate whose start was advanced covers a paragraph of two sentences
\* that the proposal entered in the middle
C2_Witness ==
    \E i \in 2..Len(raw_scenes) :
        /\ raw_scenes[i].advanced
        /\ raw_scenes[i].sentence_end > raw_scenes[i].sentence_start
        /\ sentence_slices[raw_scenes[i].sentence_start + 1].paragraph_index
              = sentence_slices[raw_scenes[i].sentence_end + 1].paragraph_index

\* Candidate j, seen earlier, is not a continuation and has the normalized
\* content of the candidate the merger looks at next
EarlierTwin(j) ==
    /\ j \in 1..merge_pos
    /\ ~raw_scenes[j].continues_from_previous
    /\ normalize(raw_scenes[j].content) = normalize(Candidate.content)

\* No continuation was merged after candidate j
NoMergeSince(j) == \A k \in (j + 1)..merge_pos : merge_log[k] # "merged"

\* C7 as stated: two candidates whose normalized content is identical and
\* neither of which is marked continues_from_previous yield exactly one
\* accepted scene: the second leaves the accepted list unchanged.
C7_SecondTwinRejected ==
    [][(pc = "merge" /\ merge_pos < Len(raw_scenes)
          /\ ~Candidate.continues_from_previous
          /\ \E j \in 1..merge_pos : EarlierTwin(j))
       => merged_scenes' = merged_scenes]_vars

\* C7 amended: when no continuation has been merged between the two
\* candidates, the second is rejected: the accepted list and the membership
\* set are left unchanged by it.
C7_SecondTwinRejectedUnlessMerged ==
    [][(pc = "merge" /\ merge_pos < Len(raw_scenes)
          /\ ~Candidate.continues_from_previous
          /\ \E j \in 1..merge_pos : EarlierTwin(j) /\ NoMergeSince(j))
       => /\ merged_scenes' = merged_scenes
          /\ seen_normalized' = seen_normalized]_vars

\* The merger has rejected a candidate as the duplicate of an earlier one
\* with no continuation merged in between
C7_Witness ==
    \E i \in 2..merge_pos : \E j \in 1..(i - 1) :
        /\ merge_log[i] = "duplicate"
        /\ merge_log[j] = "appended"
        /\ ~raw_scenes[i].continues_from_previous
        /\ ~raw_scenes[j].continues_from_previous
        /\ normalize(raw_scenes[i].content) = normalize(raw_scenes[j].content)
        /\ \A k \in (j + 1)..(i - 1) : merge_log[k] # "merged"
        /\ Len(merged_scenes) >= 1

\* Candidates first..merge_pos: the scene appended for candidate `first`
\* followed by a run of candidates each marked continues_from_previous
RunAfter(first) ==
    /\ first \in 1..merge_pos
    /\ merge_log[first] = "appended"
    /\ \A k \in (first + 1)..merge_pos : raw_scenes[k].continues_from_previous

\* Number of scenes accepted up to and including candidate i
AcceptedUpTo(i) == Cardinality({k \in 1..i : merge_log[k] = "appended"})

\* C8: a run of consecutive candidates each marked continues_from_previous
\* that follows an accepted scene S collapses into that one scene: the number
\* of accepted scenes does not grow, and S ends with sentence_start = the
\* minimum start and sentence_end = the maximum end over S and all candidates
\* of the run, however far the run has been processed.
C8_RunCollapsesIntoScene ==
    \A first \in 1..merge_pos :
        RunAfter(first) =>
            LET S == merged_scenes[Len(merged_scenes)]
                run == first..merge_pos
            IN  /\ Len(merged_scenes) = AcceptedUpTo(first)
                /\ S.sentence_start
                      = SetMin({raw_scenes[k].sentence_start : k \in run})
                /\ S.sentence_end
                      = SetMax({raw_scenes[k].sentence_end : k \in run})
                /\ S.content = ContentOf(book_text, sentence_slices,
                                         S.sentence_start, S.sentence_end)

\* A run of two continuations has been merged into the scene before it
C8_Witness ==
    \E first \in 1..merge_pos :
        /\ RunAfter(first)
        /\ merge_pos >= first + 2
        /\ merged_scenes[Len(merged_scenes)].sentence_end
              > raw_scenes[first].sentence_end + 1

\* ------------------------------------------------------------------------
\* Properties of the chunk loop's calls

\* The chunk loop is over
ChunksDone == pc \notin {"segment", "reconcile"}

\* C12: with a progress callback, the calls are (0, total), (1, total), ...,
\* in that order, one before the first classifier call and one after each
\* chunk's classifier call and reconciliation: while a chunk's response is
\* being reconciled there are as many reports as classifier calls, otherwise
\* one more; once the loop is over there are total + 1 reports and the last
\* one has processed = total.
C12_ProgressAfterEachChunk ==
    has_callback =>
        /\ Len(progress_calls) = chunk_pos + 1
        /\ \A k \in 1..Len(progress_calls) :
              progress_calls[k] = <<k - 1, Len(chunks)>>
        /\ Len(progress_calls)
              = Len(classifier_calls) + (IF pc = "reconcile" THEN 0 ELSE 1)
        /\ ChunksDone =>
              /\ Len(progress_calls) = Len(chunks) + 1
              /\ progress_calls[Len(progress_calls)][1] = Len(chunks)

\* Three chunks have been classified, proposals of theirs were accepted, and
\* the fourth report has been made
C12_Witness ==
    /\ has_callback
    /\ ChunksDone
    /\ Len(chunks) >= 3
    /\ Len(raw_scenes) >= 2
    /\ progress_calls[Len(progress_calls)] = <<3, 3>>

\* The chunk whose response is being reconciled
CurrentChunk == chunks[chunk_pos + 1]

\* The proposal has a missing or unparseable index, start < 1, end < start,
\* or end beyond the chunk's sentence count (indices are 1-based)
Malformed(p, chunk) ==
    \/ p.start_sentence_index = <<>>
    \/ p.end_sentence_index = <<>>
    \/ p.start_sentence_index[1] < 1
    \/ p.end_sentence_index[1] < p.start_sentence_index[1]
    \/ p.end_sentence_index[1] > Len(chunk.english_sentences)

\* One proposal of the response has been handled without a new candidate
DiscardStep ==
    /\ pc = "reconcile"
    /\ proposals_seen' = proposals_seen + 1
    /\ Len(raw_scenes') = Len(raw_scenes)

\* C18: a proposal with a missing or unparseable index, start < 1,
\* end < start or end beyond the chunk's sentence count is never accepted,
\* and a step that discards a proposal leaves the candidate list, the
\* high-water mark and the remembered summary as they were and stays in the
\* same chunk's response, whose remaining proposals are handled next.
C18_MalformedProposalDiscarded ==
    /\ [](pc = "reconcile" =>
            \A p \in Proposals :
                Malformed(p, CurrentChunk) =>
                    ~Reconcile(p, CurrentChunk, book_text, sentence_slices,
                               last_scene_end_idx).accepted)
    /\ [][DiscardStep =>
            /\ UNCHANGED <<vars_stream, raw_scenes, last_scene_end_idx, last_scene_summary,
                           chunk_pos, classifier_calls, progress_calls>>
            /\ pc' = "reconcile"]_vars

\* In the response for the second chunk, whose sentence count is below the
\* document's, one proposal has been discarded and another accepted after a
\* candidate of the first chunk
C18_Witness ==
    /\ pc = "reconcile"
    /\ chunk_pos = 1
    /\ proposals_seen = 2
    /\ Len(raw_scenes) = 2
    /\ last_scene_summary # <<>>
    /\ Len(CurrentChunk.english_sentences) < Len(sentence_slices)
    /\ \E p \in Proposals :
          /\ p.end_sentence_index # <<>>
          /\ p.end_sentence_index[1] > Len(CurrentChunk.english_sentences)
          /\ CurrentChunk.sentence_start + p.end_sentence_index[1] - 1
                < Len(sentence_slices)

\* The classifier has just been called
ClassifierCalled == Len(classifier_calls') = Len(classifier_calls) + 1

\* previous_scene_summary of the call just made
SummaryArgument == classifier_calls'[Len(classifier_calls')].previous_scene_summary

\* The trimmed summary of the last candidate of rs that has a non-blank
\* summary, <<>> (None) when there is none
RECURSIVE LastNonBlankSummary(_)
LastNonBlankSummary(rs) ==
    IF rs = <<>> THEN <<>>
    ELSE IF Strip(rs[Len(rs)].summary) # <<>> THEN Strip(rs[Len(rs)].summary)
    ELSE LastNonBlankSummary(SubSeq(rs, 1, Len(rs) - 1))

\* C20 as stated: the previous-summary argument of a classifier call is the
\* summary of the most recently accepted candidate, and absent before any
\* candidate has been accepted.
C20_ArgumentIsLatestSummary ==
    [][ClassifierCalled =>
          SummaryArgument = IF raw_scenes = <<>> THEN <<>>
                            ELSE raw_scenes[Len(raw_scenes)].summary]_vars

\* C20 amended: the previous-summary argument of a classifier call is the
\* trimmed summary of the most recently accepted candidate that came with a
\* non-blank summary, and absent when no accepted candidate had one.
C20_ArgumentIsLatestNonBlankSummary ==
    [][ClassifierCalled => SummaryArgument = LastNonBlankSummary(raw_scenes)]_vars

\* The classifier has been called for a later chunk after a candidate with a
\* summary and then one without a summary were accepted
C20_Witness ==
    /\ Len(classifier_calls) >= 2
    /\ pc = "reconcile"
    /\ proposals_seen = 0
    /\ Len(raw_scenes) >= 2
    /\ raw_scenes[Len(raw_scenes)].summary = <<>>
    /\ classifier_calls[Len(classifier_calls)].previous_scene_summary = <<"s">>

\* ------------------------------------------------------------------------
\* Properties of ingest as a whole

\* The capability calls made so far for the text and for the current scene
CapabilityCalls ==
    <<translate_calls, classifier_calls, vocab_prompts, question_prompts>>

\* C13: when translate_sentences, segment_chunk, extract_vocabulary or
\* generate_questions raises, ingest ends there: no capability call follows
\* and session.commit is not called; a commit happens only once the chunk
\* loop, the merger and the scene loop have run through, every scene having
\* been processed to its end.
C13_NoCommitAfterRaise ==
    /\ [](pc = "raised" => ~committed)
    /\ [](committed =>
            /\ pc = "returned"
            /\ chunk_pos = Len(chunks)
            /\ merge_pos = Len(raw_scenes)
            /\ scene_pos = Len(merged_scenes)
            /\ created_scenes = Len(merged_scenes))
    /\ [][pc = "raised" => UNCHANGED <<vars_stream, CapabilityCalls, committed, pc>>]_vars

\* A capability call for the second scene raised after the first scene had
\* been processed to its end
C13_Witness ==
    /\ pc = "raised"
    /\ scene_pos = 1
    /\ created_scenes = 2
    /\ Len(merged_scenes) = 2
    /\ vocab_prompts # <<>>
    /\ ~committed

\* The extracted text is empty or holds only whitespace
BlankText == Strip(raw_text) = <<>>

\* C14: for an empty or whitespace-only extracted text ingest raises no
\* error, builds no sentence slice and no chunk, calls neither the
\* translator nor the classifier, and returns with scene_count = 0.
C14_BlankTextGivesNoScenes ==
    BlankText =>
        /\ pc # "raised"
        /\ sentence_slices = <<>>
        /\ chunks = <<>>
        /\ translate_calls = <<>>
        /\ classifier_calls = <<>>
        /\ created_scenes = 0
        /\ pc \in {"start", "slice", "translate", "translated", "merge", "merged",
                   "returned"}
        /\ pc = "returned" => committed

\* ingest has returned for a text of whitespace and line breaks
C14_Witness ==
    /\ BlankText
    /\ Len(raw_text) >= 3
    /\ pc = "returned"
    /\ committed
    /\ created_scenes = 0
    /\ has_callback /\ progress_calls = <<<<0, 0>>>>

\* A step that calls the translator
TranslatorCalled == Len(translate_calls') > Len(translate_calls)

\* C19: the classifier is called once per chunk in increasing chunk index
\* order (call k is for chunk index k - 1, and there are as many calls as
\* chunks begun), a call is made only when the response for the chunk before
\* has been reconciled to its end, and the translator is not called once the
\* classifier has been called.
C19_ClassifierOncePerChunkInOrder ==
    /\ [](/\ \A k \in 1..Len(classifier_calls) :
                  /\ classifier_calls[k].chunk_index = k - 1
                  /\ classifier_calls[k].chunk_index = chunks[k].index
            /\ Len(classifier_calls)
                  = chunk_pos + (IF pc = "reconcile" THEN 1 ELSE 0)
            /\ (pc \in {"merge", "merged", "returned"}
                  => Len(classifier_calls) = Len(chunks)))
    /\ [][ClassifierCalled => pc = "segment" /\ pc' = "reconcile"]_vars
    /\ [][pc = "reconcile" /\ pc' # "reconcile" =>
            chunk_pos' = chunk_pos + 1 /\ ~ClassifierCalled]_vars
    /\ [][classifier_calls # <<>> => ~TranslatorCalled]_vars

\* Two translator calls were made, then the classifier was called for two
\* chunks, with proposals of the first chunk discarded and accepted
C19_Witness ==
    /\ Len(translate_calls) >= 2
    /\ Len(classifier_calls) = 2
    /\ Len(chunks) = 2
    /\ pc = "reconcile"
    /\ raw_scenes # <<>>

\* ------------------------------------------------------------------------
\* Further properties of the chunk loop

\* A proposal has just been accepted as a candidate
AcceptStep == Len(raw_scenes') = Len(raw_scenes) + 1

\* C21: after any prefix of the proposals the high-water mark is the largest
\* sentence_end of the candidates accepted so far, -1 when there is none; no
\* step lowers it and every acceptance strictly raises it.
C21_HighWaterIsLargestEnd ==
    /\ [](last_scene_end_idx =
             IF raw_scenes = <<>> THEN -1
             ELSE SetMax({raw_scenes[k].sentence_end : k \in 1..Len(raw_scenes)}))
    /\ [][last_scene_end_idx' >= last_scene_end_idx]_vars
    /\ [][AcceptStep => last_scene_end_idx' > last_scene_end_idx]_vars

\* Three candidates have been accepted, one of them with its start moved
\* past the mark, and the mark is at the third sentence
C21_Witness ==
    /\ Len(raw_scenes) = 3
    /\ last_scene_end_idx = 2
    /\ \E k \in 1..Len(raw_scenes) : raw_scenes[k].advanced
    /\ pc = "reconcile"

\* --- The chunker under every overlap ratio --------------------------------

MaxOverlapSentences == 4

\* overlap_ratio as num / den: none, the default, a half, all of the chunk,
\* more than the chunk, and negative ratios
OverlapRatios == {<<0, 1>>, <<OverlapNum, OverlapDen>>, <<1, 2>>, <<1, 1>>, <<2, 1>>,
                  <<-1, 2>>, <<-1, 1>>}

OverlapCaps == {<<>>, <<2>>, <<3>>}

OverlapTexts == {<<"a">>, <<"a", "a">>}

InitOverlap ==
    /\ pc = "chunk"
    /\ \E n \in 0..MaxOverlapSentences : french_sentences \in [1..n -> OverlapTexts]
    /\ english_sentences \in {<<>>, french_sentences}
    /\ \E ratio \in OverlapRatios, cap \in OverlapCaps :
           chunk_args = [max_tokens |-> 0, num |-> ratio[1], den |-> ratio[2],
                         max_chunk_chars |-> cap]
    /\ chunk_start = 0
    /\ chunks = <<>>
    /\ max_prompt_chars = 0
    /\ max_translation_sentences = 0
    /\ max_segment_tokens = 0
    /\ book_text = <<>>
    /\ sentence_slices = <<>>
    /\ TranslateIdle /\ ReconcileIdle /\ MergeIdle /\ SegmentsIdle
    /\ TextIdle /\ RunIdle /\ TitleIdle
    /\ StreamIdle

\* "while start < total_sentences" fails after "start = min(next_start, total_sentences)"
ChunkExhausted ==
    /\ pc = "chunk"
    /\ french_sentences # <<>>
    /\ chunk_start >= Len(french_sentences)
    /\ pc' = "chunked"
    /\ UNCHANGED <<vars_stream, vars_settings, vars_text, vars_run, vars_title, vars_doc, vars_translate, vars_chunk, vars_reconcile,
                   vars_merge, vars_segments>>

NextOverlap == NextChunk \/ ChunkExhausted

\* the loop is sequential code: an iteration that can run does run
SpecOverlap == InitOverlap /\ [][NextOverlap]_vars /\ WF_vars(NextOverlap)

\* --- Properties of the chunker under every overlap ratio ----------------

ChunkCount(chunk) == chunk.sentence_end - chunk.sentence_start

\* the next chunk starts at max(end - rolled_back, start + 1) of chunk c
StartsAfter(c, rolled_back) ==
    chunks[c + 1].sentence_start =
        PyMax(chunks[c].sentence_end - rolled_back, chunks[c].sentence_start + 1)

EveryChunkHoldsASentence ==
    \A c \in 1..Len(chunks) :
        /\ ChunkCount(chunks[c]) >= 1
        /\ Len(chunks[c].french_sentences) = ChunkCount(chunks[c])

StartsStrictlyIncrease ==
    \A c \in 1..(Len(chunks) - 1) :
        chunks[c + 1].sentence_start > chunks[c].sentence_start

\* C22 (as amended): every chunk holds at least one sentence; for consecutive
\* chunks the next sentence_start is max(sentence_end - int(overlap_ratio *
\* count), sentence_start + 1) of the previous chunk, int() rounding towards
\* zero; chunk starts strictly increase, and the function returns for every
\* input and every overlap ratio.
C22_NextStartAndTermination ==
    /\ [](EveryChunkHoldsASentence)
    /\ [](\A c \in 1..(Len(chunks) - 1) :
             StartsAfter(c, IF ChunkCount(chunks[c]) * chunk_args.num >= 0
                            THEN (ChunkCount(chunks[c]) * chunk_args.num) \div chunk_args.den
                            ELSE -((-(ChunkCount(chunks[c]) * chunk_args.num))
                                      \div chunk_args.den)))
    /\ [](StartsStrictlyIncrease)
    /\ [][chunk_start' > chunk_start]_chunk_start
    /\ <>(pc = "chunked")

\* a returned list of three chunks in which a chunk of two sentences rolled
\* back by one
C22_Witness ==
    /\ pc = "chunked"
    /\ Len(chunks) >= 3
    /\ chunk_args.num = 1 /\ chunk_args.den = 2
    /\ \E c \in 1..(Len(chunks) - 1) :
           /\ ChunkCount(chunks[c]) = 2
           /\ chunks[c + 1].sentence_start = chunks[c].sentence_end - 1

\* C22 (as stated): the rolled-back count is floor(overlap_ratio * count)
C22_Original ==
    \A c \in 1..(Len(chunks) - 1) :
        StartsAfter(c, (ChunkCount(chunks[c]) * chunk_args.num) \div chunk_args.den)

\* --- Properties of the rebalancing loop ----------------------------------

\* max(128, cap // 8) for cap = max(settings.max_prompt_chars, 1)
RebalanceFloor ==
    LET cap == IF max_prompt_chars > 1 THEN max_prompt_chars ELSE 1
        eighth == cap \div SafetyFloorDivisor
    IN  IF eighth > SafetyFloorMin THEN eighth ELSE SafetyFloorMin

\* C23: the rebalancing loop of a scene ends, because each iteration
\* strictly lowers the effective cap, to the larger of its half and the floor
\* max(128, cap // 8), and an iteration needs a cap above that floor; after
\* the loop either no segment's combined length exceeds max_prompt_chars or
\* the effective cap is not above that floor.
C23_RebalanceTerminates ==
    /\ [][pc = "rebalance" /\ pc' = "rebalance" =>
            /\ effective_cap > RebalanceFloor
            /\ effective_cap' < effective_cap
            /\ effective_cap' >= RebalanceFloor
            /\ effective_cap' = (IF effective_cap \div 2 > RebalanceFloor
                                 THEN effective_cap \div 2 ELSE RebalanceFloor)]_vars
    /\ [](Rebalanced =>
            \/ \A k \in 1..Len(prompt_segments) :
                   combined_len(prompt_segments[k]) <= max_prompt_chars
            \/ effective_cap <= RebalanceFloor)

\* the loop has halved the cap of a scene whose first grouping had a segment
\* longer than max_prompt_chars, and has ended
C23_Witness ==
    /\ Rebalanced
    /\ max_prompt_chars = LargeCap
    /\ effective_cap = SafetyFloorMin
    /\ AnyOverCap(SegmentsOrFallback(scene, max_prompt_chars), max_prompt_chars)

\* --- The slicer on sentences longer than the cap --------------------------

\* Largest number of characters of a text handed to the slicer
MaxCutChars == 5

CutAlphabet == {"a", ".", " ", "\n"}

CutTexts == UNION {[1..n -> CutAlphabet] : n \in 0..MaxCutChars}

\* max_prompt_chars of the slicer: negative, zero, and small enough to cut
CutCaps == {-2, -1, 0, 1, 2, 3, 4}

InitCut ==
    /\ pc = "slice"
    /\ book_text \in CutTexts
    /\ max_prompt_chars \in CutCaps
    /\ max_translation_sentences = 1
    /\ max_segment_tokens = DefaultSegmentTokens
    /\ sentence_slices = <<>>
    /\ french_sentences = <<>>
    /\ english_sentences = <<>>
    /\ TranslateIdle /\ ChunkIdle /\ ReconcileIdle /\ MergeIdle /\ SegmentsIdle
    /\ TextIdle /\ RunIdle /\ TitleIdle
    /\ StreamIdle

SpecCut == InitCut /\ [][BuildSlices]_vars

\* --- Properties of the cut sentences ---------------------------------------

\* the sentences that were longer than the cap, as the slicer met them
CutSentences == SliceLoop(book_text, max_prompt_chars).cuts

\* the sub-segments of a cut sentence, in order
SubSegments(cut) == SubSeq(SliceLoop(book_text, max_prompt_chars).slices, cut.first, cut.last)

Span(slice_obj) == slice_obj.end - slice_obj.start

\* each sub-segment spans at most L characters and is in the sentence's paragraph
WithinCapInParagraph(cut) ==
    \A k \in 1..Len(SubSegments(cut)) :
        /\ Span(SubSegments(cut)[k]) <= max_prompt_chars
        /\ SubSegments(cut)[k].paragraph_index = cut.paragraph_index

\* the first sub-segment starts at the sentence start, the last ends at the
\* sentence end
CoversSentence(cut) ==
    /\ SubSegments(cut) # <<>>
    /\ SubSegments(cut)[1].start = cut.start
    /\ SubSegments(cut)[Len(SubSegments(cut))].end = cut.end

Sliced == pc = "translate" /\ sentence_slices = SliceLoop(book_text, max_prompt_chars).slices

\* C24 (as amended): for L >= 1 a sentence longer than L is cut into
\* sub-segments that each span at most L characters and carry the sentence's
\* paragraph index; the first starts at the sentence start, the last ends at
\* the sentence end, and each one starts where the previous one ended or
\* after whitespace that follows it; the slicer returns a list of slices for
\* every L, including L <= 0.
C24_CutWithinCapUpToWhitespace ==
    /\ (Sliced /\ max_prompt_chars >= 1 =>
            \A c \in 1..Len(CutSentences) :
                LET cut == CutSentences[c]
                    subs == SubSegments(cut)
                IN  /\ cut.end - cut.start > max_prompt_chars
                    /\ WithinCapInParagraph(cut)
                    /\ CoversSentence(cut)
                    /\ \A k \in 1..(Len(subs) - 1) :
                           /\ subs[k + 1].start >= subs[k].end
                           /\ Strip(PySlice(book_text, subs[k].end, subs[k + 1].start)) = <<>>)
    /\ (pc = "slice" =>
            build_sentence_slices(book_text, max_prompt_chars)
                \in Seq([text : Seq(CutAlphabet), start : Int, end : Int,
                         paragraph_index : Nat]))

\* a sentence of the second paragraph was cut into two or more sub-segments
C24_Witness ==
    /\ Sliced
    /\ max_prompt_chars >= 1
    /\ \E c \in 1..Len(CutSentences) :
           /\ CutSentences[c].paragraph_index = 1
           /\ Len(SubSegments(CutSentences[c])) >= 2

\* C24 (as stated): each sub-segment starts where the previous one ended
C24_CutContiguous ==
    Sliced /\ max_prompt_chars >= 1 =>
        \A c \in 1..Len(CutSentences) :
            LET cut == CutSentences[c]
                subs == SubSegments(cut)
            IN  /\ WithinCapInParagraph(cut)
                /\ CoversSentence(cut)
                /\ \A k \in 1..(Len(subs) - 1) : subs[k + 1].start = subs[k].end

\* C25: a sub-segment of a cut sentence that ends at a space or a newline,
\* is not the last one and is not a hard cut at L characters, spans more
\* than 30% of L.
C25_BreakPointPastThreshold ==
    Sliced /\ max_prompt_chars >= 1 =>
        \A c \in 1..Len(CutSentences) :
            LET subs == SubSegments(CutSentences[c])
            IN  \A k \in 1..(Len(subs) - 1) :
                    Span(subs[k]) < max_prompt_chars /\ IsSpace(book_text[subs[k].end + 1])
                        => 10 * Span(subs[k]) > 3 * max_prompt_chars

\* --- The heading of a scene ------------------------------------------------

\* Largest number of lines of a text with headings
MaxHeadingLines == 5

\* blank, two sentences, and two roman numerals that strip_headings removes
HeadingLines == {<<>>, <<"a", ".", " ", "b", ".">>, <<"I">>, <<"V">>}

TextsWithHeadings ==
    {Join("\n", ls) : ls \in UNION {[1..n -> HeadingLines] : n \in 0..MaxHeadingLines}}

InitHeadings ==
    /\ pc = "start"
    /\ raw_text \in TextsWithHeadings
    /\ stripped_headings = <<>>
    /\ max_prompt_chars = 100
    /\ max_translation_sentences = 1
    /\ max_segment_tokens = DefaultSegmentTokens
    /\ book_text = <<>>
    /\ sentence_slices = <<>>
    /\ french_sentences = <<>>
    /\ english_sentences = <<>>
    /\ TranslateIdle /\ ChunkIdle /\ ReconcileIdle /\ MergeIdle /\ SegmentsIdle
    /\ RunIdle /\ TitleIdle
    /\ StreamIdle

\* Translation, the chunk loop and the merger, seen from the scene loop:
\* they leave a translation for every sentence and an accepted scene over
\* some range of sentences
SceneAccepted ==
    /\ pc = "translate"
    /\ sentence_slices # <<>>
    /\ english_sentences' = [k \in 1..Len(sentence_slices) |-> <<>>]
    /\ \E first \in 0..(Len(sentence_slices) - 1) :
          \E last \in first..(Len(sentence_slices) - 1) :
             merged_scenes' =
                 <<NewScene([summary |-> <<>>,
                             content |-> ContentOf(book_text, sentence_slices, first, last),
                             sentence_start |-> first, sentence_end |-> last])>>
    /\ pc' = "merged"
    /\ UNCHANGED <<vars_stream, vars_settings, book_text, sentence_slices, french_sentences,
                   vars_translate, vars_chunk, vars_reconcile, merge_pos,
                   seen_normalized, merge_log, vars_segments, vars_text, vars_run,
                   vars_title>>

NextHeadings == StripHeadings \/ BuildSlices \/ SceneAccepted \/ NextScene

SpecHeadings == InitHeadings /\ [][NextHeadings]_vars

\* --- Properties of the heading of a scene ----------------------------------

\* the 0-based index of the first sentence whose slice starts at or after the
\* heading's char_index, and of the last sentence when there is none
AssociatedIndex(heading) ==
    LET later == {k \in 0..(Len(sentence_slices) - 1) :
                     sentence_slices[k + 1].start >= heading.char_index}
    IN  IF later = {} THEN Len(sentence_slices) - 1 ELSE SetMin(later)

\* the headings associated with a sentence at or before sentence_index
HeadingsUpTo(sentence_index) ==
    {j \in 1..Len(stripped_headings) :
        AssociatedIndex(stripped_headings[j]) <= sentence_index}

\* heading j comes before heading i in sentence-index order
ComesBefore(j, i) ==
    \/ AssociatedIndex(stripped_headings[j]) < AssociatedIndex(stripped_headings[i])
    \/ /\ AssociatedIndex(stripped_headings[j]) = AssociatedIndex(stripped_headings[i])
       /\ j < i

SceneStart == merged_scenes[scene_pos + 1].sentence_start

\* C26: the heading handed to the title of a scene is the last heading, in
\* sentence-index order, among the removed headings whose associated index
\* (the first sentence whose slice starts at or after the heading's
\* char_index, the last sentence when there is none) is <= the scene start,
\* and none when every heading's index is greater.
C26_HeadingOfScene ==
    pc = "segments" =>
        IF HeadingsUpTo(SceneStart) = {} THEN title_args.heading_text = <<>>
        ELSE \E i \in HeadingsUpTo(SceneStart) :
                /\ \A j \in HeadingsUpTo(SceneStart) \ {i} : ComesBefore(j, i)
                /\ title_args.heading_text = Strip(stripped_headings[i].text)

\* a scene that starts at the second sentence, with two different headings
\* at or before it
C26_Witness ==
    /\ pc = "segments"
    /\ SceneStart >= 1
    /\ \E i, j \in HeadingsUpTo(SceneStart) :
           /\ stripped_headings[i].text # stripped_headings[j].text
           /\ AssociatedIndex(stripped_headings[j]) < AssociatedIndex(stripped_headings[i])

\* the chunk windows cover every sentence without gaps, the indices count
\* from 0, and the lists of a chunk are as long as its window
CoversEverySentence ==
        /\ Len(chunks) >= 1
        /\ chunks[1].sentence_start = 0
        /\ \A c \in 1..(Len(chunks) - 1) :
               chunks[c + 1].sentence_start <= chunks[c].sentence_end
        /\ chunks[Len(chunks)].sentence_end = Len(french_sentences)
        /\ \A c \in 1..Len(chunks) :
               /\ chunks[c].index = c - 1
               /\ Len(chunks[c].french_sentences)
                      = chunks[c].sentence_end - chunks[c].sentence_start
               /\ Len(chunks[c].english_sentences)
                      = chunks[c].sentence_end - chunks[c].sentence_start

\* C27 (as amended): for a non-empty sentence list and an overlap ratio that
\* is not negative, chunk_sentence_pairs returns at least one chunk; the
\* first chunk starts at 0, each later chunk starts at or before the previous
\* chunk's sentence_end, the last chunk ends at the sentence count, the chunk
\* indices are 0, 1, 2, ... in order, and each chunk's source and translation
\* lists both have length sentence_end - sentence_start.
C27_ChunksCoverEverySentence ==
    pc = "chunked" /\ french_sentences # <<>> /\ chunk_args.num >= 0 =>
        CoversEverySentence

\* C27 (as stated): the same for every overlap ratio
C27_ChunksCoverForEveryRatio ==
    pc = "chunked" /\ french_sentences # <<>> => CoversEverySentence

\* three chunks were returned, one of them starting before the end of the
\* chunk before it, for sentences that have translations
C27_Witness ==
    /\ pc = "chunked"
    /\ chunk_args.num >= 0
    /\ english_sentences # <<>>
    /\ Len(chunks) >= 3
    /\ \E c \in 1..(Len(chunks) - 1) :
           chunks[c + 1].sentence_start < chunks[c].sentence_end

\* --- Further properties of the merger --------------------------------------

\* whitespace-normalized contents of the accepted scenes
AcceptedContents ==
    {Join(" ", SplitWords(merged_scenes[k].content)) : k \in 1..Len(merged_scenes)}

NormalizedContent(k) == Join(" ", SplitWords(merged_scenes[k].content))

\* C28 (as amended): seen_normalized holds normalized contents of accepted
\* scenes only, among them that of the last accepted scene; as long as no
\* continuation merge has happened it is exactly the set of the normalized
\* contents of the accepted scenes and no two accepted scenes have the same
\* normalized content; and a candidate is appended as a new scene only when
\* its normalized content is not in the set.
C28_SeenWithinAccepted ==
    /\ [](seen_normalized \subseteq AcceptedContents)
    /\ [](merged_scenes # <<>> => NormalizedContent(Len(merged_scenes)) \in seen_normalized)
    /\ []((\A m \in 1..Len(merge_log) : merge_log[m] # "merged") =>
             (/\ seen_normalized = AcceptedContents
              /\ \A j, k \in 1..Len(merged_scenes) :
                     j # k => NormalizedContent(j) # NormalizedContent(k)))
    /\ [][Len(merged_scenes') = Len(merged_scenes) + 1 =>
              Join(" ", SplitWords(merged_scenes'[Len(merged_scenes')].content))
                  \notin seen_normalized]_vars

\* a continuation merge has given the second accepted scene the normalized
\* content of the first
C28_Witness ==
    /\ Len(merged_scenes) = 2
    /\ merge_log = <<"appended", "appended", "merged">>
    /\ NormalizedContent(1) = NormalizedContent(2)
    /\ merged_scenes[1].content # merged_scenes[2].content

\* C28 (as stated): seen_normalized is exactly the set of whitespace-normalized
\* contents of the accepted scenes, and no two accepted scenes have the same
\* normalized content.
C28_SeenIsAcceptedAndDistinct ==
    /\ seen_normalized = AcceptedContents
    /\ \A j, k \in 1..Len(merged_scenes) :
           j # k => Join(" ", SplitWords(merged_scenes[j].content))
                      # Join(" ", SplitWords(merged_scenes[k].content))

\* the merger takes up a flagged candidate
FlaggedNext ==
    /\ pc = "merge"
    /\ merge_pos < Len(raw_scenes)
    /\ raw_scenes[merge_pos + 1].continues_from_previous
    /\ merge_pos' = merge_pos + 1

LastAccepted == merged_scenes[Len(merged_scenes)]

\* C29: a flagged candidate that arrives when no scene has been accepted is
\* appended as a new scene, like a candidate without the flag whose content
\* is not a duplicate; a flagged candidate that follows a rejected duplicate
\* is merged into the last accepted scene, whose range then runs from its
\* start to the candidate's end, over the sentences of the duplicate, and
\* whose content is the text of that range.
C29_FlaggedFirstAndAfterDuplicate ==
    /\ [][FlaggedNext /\ merged_scenes = <<>> =>
             /\ Len(merged_scenes') = 1
             /\ merged_scenes'[1].content = raw_scenes[merge_pos + 1].content
             /\ merged_scenes'[1].sentence_start = raw_scenes[merge_pos + 1].sentence_start
             /\ merged_scenes'[1].sentence_end = raw_scenes[merge_pos + 1].sentence_end
             /\ merge_log' = Append(merge_log, "appended")]_vars
    /\ [][FlaggedNext /\ merge_log # <<>> /\ merge_log[Len(merge_log)] = "duplicate" =>
             /\ Len(merged_scenes') = Len(merged_scenes)
             /\ \A k \in 1..(Len(merged_scenes) - 1) : merged_scenes'[k] = merged_scenes[k]
             /\ LastAccepted'.sentence_start = LastAccepted.sentence_start
             /\ LastAccepted'.sentence_end = raw_scenes[merge_pos + 1].sentence_end
             /\ LastAccepted'.sentence_start <= raw_scenes[merge_pos].sentence_start
             /\ raw_scenes[merge_pos].sentence_end < LastAccepted'.sentence_end
             /\ LastAccepted'.content
                    = Strip(PySlice(book_text,
                                    sentence_slices[LastAccepted'.sentence_start + 1].start,
                                    sentence_slices[LastAccepted'.sentence_end + 1].end))
             /\ merge_log' = Append(merge_log, "merged")]_vars

\* the first candidate was flagged and was appended; the second was rejected
\* as a duplicate; the third was flagged and merged, and the scene now runs
\* over all three sentences
C29_Witness ==
    /\ merge_log = <<"appended", "duplicate", "merged">>
    /\ raw_scenes[1].continues_from_previous
    /\ raw_scenes[3].continues_from_previous
    /\ Len(merged_scenes) = 1
    /\ merged_scenes[1].sentence_start = 0
    /\ merged_scenes[1].sentence_end = 2

\* ---------------------------------------------------------------------------
\* The event stream of upload_book (src/backend/app/api/books.py, event_stream)
\* ---------------------------------------------------------------------------

\* Largest number of chunks ingest reports progress for
MaxStreamChunks == 3

\* The item run_ingest's finally clause puts on the queue: None
Sentinel == [type |-> "sentinel"]

\* payload = {"type": "progress", "processed_chunks": processed,
\*            "total_chunks": total}
ProgressEvent(processed, total) ==
    [type |-> "progress", processed_chunks |-> processed, total_chunks |-> total]

\* payload = {"type": "completed", "book_id": ..., "scene_count": ...}
CompletedEvent == [type |-> "completed"]

\* {"type": "error", "message": str(exc)}
ErrorEvent(exc) == [type |-> "error", message |-> exc]

\* queue.get() on a queue that holds an item: the Queue is first in, first out
QueueGetLast(q) == [item |-> q[Len(q)], rest |-> SubSeq(q, 1, Len(q) - 1)]

QueueGet(q) == [item |-> Head(q), rest |-> Tail(q)]

InitStream ==
    /\ pc = "stream"
    /\ stream_total \in 0..MaxStreamChunks
    /\ queue = <<>>
    /\ enqueued = <<>>
    /\ yielded = <<>>
    /\ worker = "unsubmitted"
    /\ producer = "submit"
    /\ reported = 0
    /\ raised = <<>>
    /\ max_prompt_chars = 0
    /\ max_translation_sentences = 0
    /\ max_segment_tokens = 0
    /\ book_text = <<>> /\ sentence_slices = <<>>
    /\ french_sentences = <<>> /\ english_sentences = <<>>
    /\ TranslateIdle /\ ChunkIdle /\ ReconcileIdle /\ MergeIdle /\ SegmentsIdle
    /\ TextIdle /\ RunIdle /\ TitleIdle

\* queue.put(item): the Queue is unbounded, put never blocks
QueuePut(item) ==
    /\ queue' = Append(queue, item)
    /\ enqueued' = Append(enqueued, item)

StreamFrame ==
    UNCHANGED <<pc, vars_settings, vars_doc, vars_translate, vars_chunk,
                vars_reconcile, vars_merge, vars_segments, vars_text, vars_run,
                vars_title, stream_total>>

\* executor.submit(run_ingest): the single worker thread starts run_ingest,
\* which calls ingest_pipeline.ingest(..., progress_callback=progress_callback)
SubmitIngest ==
    /\ producer = "submit"
    /\ producer' = "get"
    /\ worker' = "ingest"
    /\ UNCHANGED <<queue, enqueued, yielded, reported, raised>>
    /\ StreamFrame

\* ingest calls progress_callback(0, total) once the chunks are known and
\* progress_callback(k, total) after the k-th chunk; the callback puts the
\* event on the queue
ProgressCallback ==
    /\ worker = "ingest"
    /\ reported <= stream_total
    /\ QueuePut(ProgressEvent(reported, stream_total))
    /\ reported' = reported + 1
    /\ UNCHANGED <<yielded, worker, producer, raised>>
    /\ StreamFrame

\* ingest returns its result after the last progress call
IngestReturns ==
    /\ worker = "ingest"
    /\ reported = stream_total + 1
    /\ worker' = "payload"
    /\ UNCHANGED <<queue, enqueued, yielded, producer, reported, raised>>
    /\ StreamFrame

\* ingest raises an Exception, before, between or after its progress calls
IngestRaises ==
    /\ worker = "ingest"
    /\ worker' = "except"
    /\ raised' = <<"ingest">>
    /\ UNCHANGED <<queue, enqueued, yielded, producer, reported>>
    /\ StreamFrame

\* queue.put(json.dumps(payload)) with the completed payload
PutCompleted ==
    /\ worker = "payload"
    /\ QueuePut(CompletedEvent)
    /\ worker' = "finally"
    /\ UNCHANGED <<yielded, producer, reported, raised>>
    /\ StreamFrame

\* building the completed payload (result.book.id, json.dumps) raises inside
\* the try block
PayloadRaises ==
    /\ worker = "payload"
    /\ worker' = "except"
    /\ raised' = <<"payload">>
    /\ UNCHANGED <<queue, enqueued, yielded, producer, reported>>
    /\ StreamFrame

\* except Exception as exc: queue.put(json.dumps({"type": "error", ...}))
PutError ==
    /\ worker = "except"
    /\ QueuePut(ErrorEvent(raised[1]))
    /\ worker' = "finally"
    /\ UNCHANGED <<yielded, producer, reported, raised>>
    /\ StreamFrame

\* finally: queue.put(None); run_ingest ends
PutSentinel ==
    /\ worker = "finally"
    /\ QueuePut(Sentinel)
    /\ worker' = "done"
    /\ UNCHANGED <<yielded, producer, reported, raised>>
    /\ StreamFrame

\* item = queue.get() returns an event: yield f"data: {item}\n\n"
YieldItem ==
    /\ producer = "get"
    /\ queue # <<>>
    /\ QueueGet(queue).item # Sentinel
    /\ yielded' = Append(yielded, QueueGet(queue).item)
    /\ queue' = QueueGet(queue).rest
    /\ UNCHANGED <<enqueued, worker, producer, reported, raised>>
    /\ StreamFrame

\* item = queue.get() returns None: break
TakeSentinel ==
    /\ producer = "get"
    /\ queue # <<>>
    /\ QueueGet(queue).item = Sentinel
    /\ queue' = QueueGet(queue).rest
    /\ producer' = "shutdown"
    /\ UNCHANGED <<enqueued, yielded, worker, reported, raised>>
    /\ StreamFrame

\* leaving the with block: executor.shutdown(wait=True) returns once
\* run_ingest has ended, and the generator is exhausted
ExecutorExit ==
    /\ producer = "shutdown"
    /\ worker = "done"
    /\ producer' = "done"
    /\ UNCHANGED <<queue, enqueued, yielded, worker, reported, raised>>
    /\ StreamFrame

WorkerStep ==
    \/ ProgressCallback \/ IngestReturns \/ IngestRaises
    \/ PutCompleted \/ PayloadRaises \/ PutError \/ PutSentinel

ProducerStep == SubmitIngest \/ YieldItem \/ TakeSentinel \/ ExecutorExit

NextStream ==
    \/ SubmitIngest
    \/ ProgressCallback \/ IngestReturns \/ IngestRaises
    \/ PutCompleted \/ PayloadRaises \/ PutError \/ PutSentinel
    \/ YieldItem \/ TakeSentinel \/ ExecutorExit

\* The worker thread and the consumer of the generator both keep running:
\* a step either of them can take is taken
SpecStream ==
    InitStream /\ [][NextStream]_vars /\ WF_vars(WorkerStep) /\ WF_vars(ProducerStep)

\* ---------------------------------------------------------------------------
\* Properties of the event stream
\* ---------------------------------------------------------------------------

IsTerminalEvent(event) == event.type \in {"completed", "error"}

Positions(events, Test(_)) == {k \in 1..Len(events) : Test(events[k])}

IsProgressEvent(event) == event.type = "progress"

IsSentinel(event) == event = Sentinel

\* progress events, then at most one terminal event, then at most one None
InEnqueueOrder(events) ==
    /\ Cardinality(Positions(events, IsTerminalEvent)) <= 1
    /\ Cardinality(Positions(events, IsSentinel)) <= 1
    /\ \A i \in Positions(events, IsProgressEvent) :
         \A j \in Positions(events, IsTerminalEvent) \cup Positions(events, IsSentinel) :
           i < j
    /\ \A i \in Positions(events, IsTerminalEvent) :
         \A j \in Positions(events, IsSentinel) : i < j

\* exactly one terminal event and, after it, exactly one None
RunComplete(events) ==
    /\ InEnqueueOrder(events)
    /\ Cardinality(Positions(events, IsTerminalEvent)) = 1
    /\ Cardinality(Positions(events, IsSentinel)) = 1

IsPrefix(s, t) == Len(s) <= Len(t) /\ SubSeq(t, 1, Len(s)) = s

\* C30: in every run of the worker, whether ingest returns or raises, the
\* worker enqueues its progress events, then exactly one terminal event
\* (completed or error), then exactly one None; the producer yields the
\* enqueued events in the order they were enqueued, has yielded every one of
\* them when it ends, and does end: it never waits forever on the queue.
C30_StreamEndsAfterEveryEvent ==
    /\ [](InEnqueueOrder(enqueued))
    /\ [](worker = "done" => RunComplete(enqueued))
    /\ [](IsPrefix(yielded, enqueued))
    /\ [](producer = "done" =>
            /\ queue = <<>>
            /\ worker = "done"
            /\ Append(yielded, Sentinel) = enqueued)
    /\ <>(producer = "done")

\* ingest raised after two progress events; the generator has ended after
\* yielding them and the error event
C30_Witness ==
    /\ producer = "done"
    /\ Len(yielded) = 3
    /\ yielded[1].type = "progress"
    /\ yielded[2].type = "progress"
    /\ yielded[3].type = "error"

====
